---- MODULE Spec2Model ----
(***************************************************************************)
(* Pricing-rules store, its in-memory cache and the admin handlers that    *)
(* change it (services/pricingConfig.js, routes/admin.js).                 *)
(*                                                                         *)
(* Multipliers and probabilities are kept in hundredths (1.2 is 120,       *)
(* 0.9 is 90), prices and scores are integers, time is Date.now() in ms.   *)
(* A JavaScript object is a function over the set of its keys, so a key    *)
(* that is absent is a key outside DOMAIN; null is the record Null.        *)
(***************************************************************************)
EXTENDS Integers, Sequences, FiniteSets, TLC

\* ------------------------------------------------------------------ values

Null == [null |-> TRUE]

EmptyObj == [k \in {} |-> 0]

Has(o, k) == k \in DOMAIN o

\* ------------------------------------------------- config/pricing defaults

SERVICE_PRICING ==
  [ roof     |-> [small |-> <<150, 250>>, medium |-> <<250, 450>>, large |-> <<450, 750>>,  default |-> <<250, 450>>],
    driveway |-> [small |-> <<100, 180>>, medium |-> <<180, 300>>, large |-> <<300, 500>>,  default |-> <<180, 300>>],
    gutter   |-> [small |-> <<80, 120>>,  medium |-> <<120, 180>>, large |-> <<180, 280>>,  default |-> <<120, 180>>],
    softwash |-> [small |-> <<200, 350>>, medium |-> <<350, 600>>, large |-> <<600, 1000>>, default |-> <<350, 600>>],
    render   |-> [small |-> <<250, 400>>, medium |-> <<400, 700>>, large |-> <<700, 1200>>, default |-> <<400, 700>>],
    window   |-> [small |-> <<60, 100>>,  medium |-> <<100, 160>>, large |-> <<160, 250>>,  default |-> <<100, 160>>],
    solar    |-> [small |-> <<100, 150>>, medium |-> <<150, 250>>, large |-> <<250, 400>>,  default |-> <<150, 250>>],
    other    |-> [small |-> <<100, 200>>, medium |-> <<200, 400>>, large |-> <<400, 700>>,  default |-> <<200, 400>>] ]

MODIFIERS ==
  [ firstTimeCleaning |-> 120, heavilySoiled |-> 115, difficultAccess |-> 125,
    heightWork |-> 130, multipleServices |-> 90, urgent |-> 115 ]

MULTI_SERVICE_DISCOUNT == [ threshold |-> 3, discount |-> 90 ]

\* score points are kept in tenths, so that a configured 4.5 is the integer
\* 45 (baseScore 50 is 500); the two value thresholds are pounds
LEAD_SCORING ==
  [ highValueThreshold |-> 400, highValueBonus |-> 200,
    veryHighValueThreshold |-> 700, veryHighValueBonus |-> 300,
    multipleServicesBonus |-> 150, manyServicesBonus |-> 250,
    remindersOptIn |-> 100, phonePreferred |-> 100, emailPreferred |-> 50,
    commercialProperty |-> 150, urgentLanguage |-> 100, baseScore |-> 500 ]

\* thresholds in tenths of a point, as the scores they are compared with
QUALIFICATION_THRESHOLDS == [ hot |-> 750, warm |-> 500, cold |-> 300 ]

CONVERSION_FACTORS == [ hotLead |-> 80, warmLead |-> 50, coldLead |-> 25, unqualified |-> 10 ]

fileDefaults ==
  [ SERVICE_PRICING |-> SERVICE_PRICING,
    MODIFIERS |-> MODIFIERS,
    MULTI_SERVICE_DISCOUNT |-> MULTI_SERVICE_DISCOUNT,
    LEAD_SCORING |-> LEAD_SCORING,
    QUALIFICATION_THRESHOLDS |-> QUALIFICATION_THRESHOLDS,
    CONVERSION_FACTORS |-> CONVERSION_FACTORS ]

\* ------------------------------------------------ services/pricingConfig.js

CACHE_TTL == 5 * 60 * 1000

getFileDefaults ==
  [ SERVICE_PRICING |-> fileDefaults.SERVICE_PRICING,
    MODIFIERS |-> fileDefaults.MODIFIERS,
    MULTI_SERVICE_DISCOUNT |-> fileDefaults.MULTI_SERVICE_DISCOUNT,
    LEAD_SCORING |-> fileDefaults.LEAD_SCORING,
    QUALIFICATION_THRESHOLDS |-> fileDefaults.QUALIFICATION_THRESHOLDS,
    CONVERSION_FACTORS |-> fileDefaults.CONVERSION_FACTORS ]

\* dbConfig.X || {} : the section of the override, or the empty object
SectionOrEmpty(dbConfig, name) == IF Has(dbConfig, name) THEN dbConfig[name] ELSE EmptyObj

\* { ...d, ...o } : every key of either, o's value where o has the key
Spread(d, o) == [k \in DOMAIN d \cup DOMAIN o |-> IF k \in DOMAIN o THEN o[k] ELSE d[k]]

\* dbConfig.SERVICE_PRICING || fileDefaults.SERVICE_PRICING : taken whole
MergePricing(dbConfig) ==
  IF Has(dbConfig, "SERVICE_PRICING") THEN dbConfig.SERVICE_PRICING
  ELSE fileDefaults.SERVICE_PRICING

mergeWithDefaults(dbConfig) ==
  [ SERVICE_PRICING |-> MergePricing(dbConfig),
    MODIFIERS |-> Spread(fileDefaults.MODIFIERS, SectionOrEmpty(dbConfig, "MODIFIERS")),
    MULTI_SERVICE_DISCOUNT |->
      Spread(fileDefaults.MULTI_SERVICE_DISCOUNT, SectionOrEmpty(dbConfig, "MULTI_SERVICE_DISCOUNT")),
    LEAD_SCORING |-> Spread(fileDefaults.LEAD_SCORING, SectionOrEmpty(dbConfig, "LEAD_SCORING")),
    QUALIFICATION_THRESHOLDS |->
      Spread(fileDefaults.QUALIFICATION_THRESHOLDS, SectionOrEmpty(dbConfig, "QUALIFICATION_THRESHOLDS")),
    CONVERSION_FACTORS |->
      Spread(fileDefaults.CONVERSION_FACTORS, SectionOrEmpty(dbConfig, "CONVERSION_FACTORS")) ]


\* ------------------------------------------------------------------ bounds

\* requests (estimates, updates and resets) served over a run
MaxRequests == 2

\* cache lifetimes the clock runs through
MaxPeriods == 1

Procs == {1, 2}

\* Date.now() at start-up, and the instants the clock is observed at: the
\* last millisecond before each multiple of the cache lifetime and the
\* multiple itself, so that the ages TTL - 1 and TTL both occur
StartTime == 2 * CACHE_TTL

Instants ==
  {StartTime} \cup { StartTime + k * CACHE_TTL - d : k \in 1..MaxPeriods, d \in {0, 1} }

\* ------------------------------------------------- the settings table (DB)

NoRecord == [norecord |-> TRUE]

Row(v) == [value |-> v]

\* rows the settings table may hold when the process starts: none, a row with
\* a null value, an empty override, and one that omits sections and keys
InitialStores ==
  { NoRecord,
    Row(Null),
    Row(EmptyObj),
    Row([MODIFIERS |-> [urgent |-> 150]]) }

\* ----------------------------------------------------- request bodies (PUT)

UpdateBodies ==
  { EmptyObj,
    [note |-> 1],
    [qualificationThresholds |-> [hot |-> 800, warm |-> 600, cold |-> 200]],
    [qualificationThresholds |-> [hot |-> 500, warm |-> 600, cold |-> 200]],
    [qualificationThresholds |-> [hot |-> 400]],
    [modifiers |-> [urgent |-> 150], leadScoring |-> [baseScore |-> 600]],
    [modifiers |-> [urgent |-> 0]],
    [servicePricing |-> [roof |-> [small |-> <<100, 200>>]]],
    [servicePricing |-> [roof |-> [small |-> <<300, 200>>]]],
    [servicePricing |-> [roof |-> [small |-> <<-5, 200>>]]],
    [multiServiceDiscount |-> [threshold |-> 1, discount |-> 80]],
    [multiServiceDiscount |-> [discount |-> 80], conversionFactors |-> [hotLead |-> 90]] }

\* ------------------------------------------------------------------- state

VARIABLES
  supabase,        \* pricingConfig.js: the module's store client is set
  cachedConfig,    \* pricingConfig.js: cached configuration, or Null
  cacheTimestamp,  \* pricingConfig.js: Date.now() when it was cached, or 0
  now,             \* Date.now()
  store,           \* settings row 'pricing_config'
  history,         \* pricing_history rows, oldest first
  pc,              \* per request: where its handler stands
  op,              \* per request: "estimate", "update", "reset" or "none"
  loc,             \* per request: the handler's local variables
  requests,        \* requests served so far
  quote,           \* estimator.js, scorer.js: the submission being estimated
  rules,           \* the configuration getPricingConfig() gave the estimator
  estimate,        \* what calculateEstimate returned, Null before
  scoring,         \* what calculateLeadScore returned, Null before
  step,            \* "off", or how far the estimation has come
  alert,           \* what shouldAlertAdmin returned, Null before
  job,             \* estimationJob.js: one processEstimation call, Null if none
  preview          \* what calculateTestEstimate returned, Null before

\* the variables of one estimation
estimation == <<quote, rules, estimate, scoring, step, alert, job, preview>>

vars == <<supabase, cachedConfig, cacheTimestamp, now, store, history, pc, op, loc, requests,
          quote, rules, estimate, scoring, step, alert, job, preview>>

\* no estimation is under way
NoEstimation ==
  /\ quote = EmptyObj
  /\ rules = Null
  /\ estimate = Null
  /\ scoring = Null
  /\ step = "off"
  /\ alert = Null
  /\ job = Null
  /\ preview = Null

NoResp == [cause |-> "none", thrown |-> FALSE, error |-> FALSE, data |-> Null]

InitLoc ==
  [ id |-> 0,                \* which request this is, 0 before the first
    hit |-> FALSE,           \* getPricingConfig answered from the cache
    read |-> NoResp,         \* what the awaited select gave
    resp |-> NoResp,         \* what the awaited upsert or delete gave
    config |-> Null,         \* getPricingConfig's return value (currentConfig)
    raised |-> FALSE,        \* getPricingConfig raised
    body |-> EmptyObj,       \* req.body
    newConfig |-> Null,
    changedSections |-> <<>>,
    pending |-> <<>>,        \* sections still to log
    wrote |-> FALSE,         \* the store call of this request changed the row
    logged |-> 0,            \* history rows this request appended
    logFailed |-> FALSE,     \* some history insert of this request failed
    status |-> 0 ]           \* HTTP status answered, 0 while none

Init ==
  /\ supabase = FALSE
  /\ cachedConfig = Null
  /\ cacheTimestamp = 0
  /\ now = StartTime
  /\ store \in InitialStores
  /\ history = <<>>
  /\ pc = [p \in Procs |-> "idle"]
  /\ op = [p \in Procs |-> "none"]
  /\ loc = [p \in Procs |-> InitLoc]
  /\ requests = 0
  /\ NoEstimation


\* --------------------------------------------- pricingConfig.js: operators

\* the cache check with the boundary off by one: an entry aged exactly TTL is served
CacheHitAtTTL == cachedConfig # Null /\ (now - cacheTimestamp) <= CACHE_TTL

\* line 29: cachedConfig && (Date.now() - cacheTimestamp) < CACHE_TTL
CacheHit == cachedConfig # Null /\ (now - cacheTimestamp) < CACHE_TTL

\* what `await supabase.from('settings').select().single()` gives for the row
\* (.single() reports a missing row as an error)
SelectResponse(row) ==
  IF row = NoRecord
  THEN [cause |-> "norecord", thrown |-> FALSE, error |-> TRUE, data |-> Null]
  ELSE [cause |-> IF row.value = Null THEN "nullvalue" ELSE "row",
        thrown |-> FALSE, error |-> FALSE, data |-> row]

\* a store call that failed: it threw, or it returned { error }
FailResponse(c) ==
  [cause |-> c, thrown |-> (c = "throws"), error |-> (c = "error"), data |-> Null]

OkResponse == [cause |-> "ok", thrown |-> FALSE, error |-> FALSE, data |-> Null]

\* the load without its try/catch: what the select throws reaches the caller
loadWithoutCatch(resp) ==
  IF resp.thrown THEN [raised |-> TRUE, config |-> Null]
  ELSE IF ~resp.error /\ resp.data # Null /\ resp.data.value # Null
  THEN [raised |-> FALSE, config |-> mergeWithDefaults(resp.data.value)]
  ELSE [raised |-> FALSE, config |-> getFileDefaults]

\* lines 35-65: the try/catch around the read, the merge, the fall back
loadFromResponse(resp) ==
  IF ~resp.thrown /\ ~resp.error /\ resp.data # Null /\ resp.data.value # Null
  THEN [raised |-> FALSE, config |-> mergeWithDefaults(resp.data.value)]
  ELSE [raised |-> FALSE, config |-> getFileDefaults]

\* lines 92-99 without `if (error) throw error`: only a thrown call fails
saveOutcomeWithoutCheck(resp) == IF resp.thrown THEN "throws" ELSE "success"

\* lines 99-105: `if (error) throw error`, a thrown call propagates
saveOutcome(resp) == IF resp.thrown \/ resp.error THEN "throws" ELSE "success"

\* lines 115-124: the result of the awaited delete is not looked at
resetOutcome(resp) == IF resp.thrown THEN "throws" ELSE "success"

\* the history insert without its try/catch: what it throws reaches the handler
logWithoutCatch(client, c) ==
  [raised |-> (client /\ c = "throws"), appended |-> (client /\ c = "ok")]

\* lines 148-161: returns without a client, swallows what the insert throws,
\* does not look at a returned error
logPricingChange(client, c) ==
  [raised |-> FALSE, appended |-> (client /\ c = "ok")]

\* ------------------------------------------------- admin.js: update handler

Sections ==
  << [section |-> "service_pricing", configKey |-> "SERVICE_PRICING",
      updateKey |-> "servicePricing", description |-> "Updated service pricing"],
     [section |-> "modifiers", configKey |-> "MODIFIERS",
      updateKey |-> "modifiers", description |-> "Updated modifiers"],
     [section |-> "multi_service_discount", configKey |-> "MULTI_SERVICE_DISCOUNT",
      updateKey |-> "multiServiceDiscount", description |-> "Updated multi service discount"],
     [section |-> "lead_scoring", configKey |-> "LEAD_SCORING",
      updateKey |-> "leadScoring", description |-> "Updated lead scoring"],
     [section |-> "qualification_thresholds", configKey |-> "QUALIFICATION_THRESHOLDS",
      updateKey |-> "qualificationThresholds", description |-> "Updated qualification thresholds"],
     [section |-> "conversion_factors", configKey |-> "CONVERSION_FACTORS",
      updateKey |-> "conversionFactors", description |-> "Updated conversion factors"] >>

\* the one entry a reset logs (lines 1627-1632)
FullReset ==
  [section |-> "full_reset", configKey |-> "", updateKey |-> "",
   description |-> "Reset all pricing to file defaults"]

\* lines 1516-1526
BadServicePricing(sp) ==
  \E service \in DOMAIN sp : \E size \in DOMAIN sp[service] :
    LET range == sp[service][size]
    IN range[1] < 0 \/ range[2] < 0 \/ range[1] > range[2]

\* lines 1535-1539
BadModifiers(m) == \E key \in DOMAIN m : m[key] <= 0

\* lines 1548-1553; a comparison with a missing (undefined) key is false
BadDiscount(msd) ==
  \/ Has(msd, "threshold") /\ msd.threshold < 2
  \/ Has(msd, "discount") /\ (msd.discount <= 0 \/ msd.discount > 100)

\* line 1569; a comparison with a missing (undefined) key is false
BadThresholds(qt) ==
  \/ Has(qt, "hot") /\ Has(qt, "warm") /\ qt.hot <= qt.warm
  \/ Has(qt, "warm") /\ Has(qt, "cold") /\ qt.warm <= qt.cold

\* the 400 answers of lines 1514-1576
Rejected(updates) ==
  \/ Has(updates, "servicePricing") /\ BadServicePricing(updates.servicePricing)
  \/ Has(updates, "modifiers") /\ BadModifiers(updates.modifiers)
  \/ Has(updates, "multiServiceDiscount") /\ BadDiscount(updates.multiServiceDiscount)
  \/ Has(updates, "qualificationThresholds") /\ BadThresholds(updates.qualificationThresholds)

\* lines 1511-1583: each section from the update if it has it, else current
BuildNewConfig(updates, currentConfig) ==
  [ SERVICE_PRICING |->
      IF Has(updates, "servicePricing") THEN updates.servicePricing
      ELSE currentConfig.SERVICE_PRICING,
    MODIFIERS |->
      IF Has(updates, "modifiers") THEN updates.modifiers ELSE currentConfig.MODIFIERS,
    MULTI_SERVICE_DISCOUNT |->
      IF Has(updates, "multiServiceDiscount") THEN updates.multiServiceDiscount
      ELSE currentConfig.MULTI_SERVICE_DISCOUNT,
    LEAD_SCORING |->
      IF Has(updates, "leadScoring") THEN updates.leadScoring ELSE currentConfig.LEAD_SCORING,
    QUALIFICATION_THRESHOLDS |->
      IF Has(updates, "qualificationThresholds") THEN updates.qualificationThresholds
      ELSE currentConfig.QUALIFICATION_THRESHOLDS,
    CONVERSION_FACTORS |->
      IF Has(updates, "conversionFactors") THEN updates.conversionFactors
      ELSE currentConfig.CONVERSION_FACTORS ]

IsChanged(updates, s) == Has(updates, s.updateKey)

ChangedSections(updates) == SelectSeq(Sections, LAMBDA s : IsChanged(updates, s))

\* lines 1599-1604 and 1627-1632: the row handed to logPricingChange
ChangeRecord(s, l) ==
  [ changed_section |-> s.section,
    old_value |-> IF s = FullReset THEN l.config ELSE l.config[s.configKey],
    new_value |-> IF s = FullReset THEN Null ELSE l.newConfig[s.configKey],
    description |-> s.description ]

\* ------------------------------------------------------------- JS strings
\* A string is the sequence of its characters, so that toLowerCase() and
\* includes() are computed on the text as the code computes them.

UpperToLower ==
  ("A" :> "a") @@ ("B" :> "b") @@ ("C" :> "c") @@ ("D" :> "d") @@ ("E" :> "e") @@ ("F" :> "f")
  @@ ("G" :> "g") @@ ("H" :> "h") @@ ("I" :> "i") @@ ("J" :> "j") @@ ("K" :> "k") @@ ("L" :> "l")
  @@ ("M" :> "m") @@ ("N" :> "n") @@ ("O" :> "o") @@ ("P" :> "p") @@ ("Q" :> "q") @@ ("R" :> "r")
  @@ ("S" :> "s") @@ ("T" :> "t") @@ ("U" :> "u") @@ ("V" :> "v") @@ ("W" :> "w") @@ ("X" :> "x")
  @@ ("Y" :> "y") @@ ("Z" :> "z")

\* String.prototype.toLowerCase()
toLowerCase(text) ==
  [i \in 1..Len(text) |-> IF text[i] \in DOMAIN UpperToLower THEN UpperToLower[text[i]] ELSE text[i]]

\* String.prototype.includes(word)
includes(text, word) ==
  \E i \in 0..(Len(text) - Len(word)) : SubSeq(text, i + 1, i + Len(word)) = word

includesAny(text, words) == \E w \in words : includes(text, w)

\* answers.field?.toLowerCase() || '': a missing field and an empty one are
\* both falsy and match no word
LowerField(answers, field) ==
  IF Has(answers, field) THEN toLowerCase(answers[field]) ELSE <<>>

\* the template string `${a} ${b}`
JoinWithSpace(a, b) == a \o <<" ">> \o b

\* ------------------------------------------------- services/estimator.js

ESTIMATION_VERSION == "v1.1"

\* determineSize, line 154
SmallWords ==
  { <<"s", "m", "a", "l", "l">>,
    <<"c", "o", "m", "p", "a", "c", "t">> }

\* determineSize, line 155
LargeWords ==
  { <<"l", "a", "r", "g", "e">>,
    <<"b", "i", "g">> }

\* determineSize line 163, scorer.js line 89
CommercialWords ==
  { <<"c", "o", "m", "m", "e", "r", "c", "i", "a", "l">>,
    <<"b", "u", "s", "i", "n", "e", "s", "s">> }

\* determineSize, line 168
SmallPropertyWords ==
  { <<"b", "u", "n", "g", "a", "l", "o", "w">>,
    <<"f", "l", "a", "t">>,
    <<"a", "p", "a", "r", "t", "m", "e", "n", "t">> }

\* determineSize, line 173
DetachedWords ==
  { <<"d", "e", "t", "a", "c", "h", "e", "d">> }

\* line 204 with 'year' in place of 'years'
FirstTimeWordsYear ==
  { <<"n", "e", "v", "e", "r">>,
    <<"y", "e", "a", "r">> }

\* calculateModifiers, line 204
FirstTimeWords ==
  { <<"n", "e", "v", "e", "r">>,
    <<"y", "e", "a", "r", "s">> }

\* calculateModifiers, lines 211-215
SoiledWords ==
  { <<"v", "e", "r", "y", " ", "d", "i", "r", "t", "y">>,
    <<"h", "e", "a", "v", "i", "l", "y", " ", "s", "o", "i", "l", "e", "d">>,
    <<"m", "o", "s", "s">>,
    <<"a", "l", "g", "a", "e">>,
    <<"s", "t", "a", "i", "n", "e", "d">> }

\* calculateModifiers, lines 222-225
DifficultWords ==
  { <<"d", "i", "f", "f", "i", "c", "u", "l", "t">>,
    <<"n", "a", "r", "r", "o", "w">>,
    <<"l", "i", "m", "i", "t", "e", "d", " ", "a", "c", "c", "e", "s", "s">>,
    <<"h", "a", "r", "d", " ", "t", "o", " ", "r", "e", "a", "c", "h">> }

\* calculateModifiers, lines 231-234
HeightAccessWords ==
  { <<"h", "i", "g", "h">>,
    <<"t", "a", "l", "l">>,
    <<"t", "w", "o", " ", "s", "t", "o", "r">>,
    <<"t", "h", "r", "e", "e", " ", "s", "t", "o", "r">> }

\* calculateModifiers, line 235
HeightDetailWords ==
  { <<"h", "i", "g", "h">> }

\* calculateModifiers, lines 241-244
UrgentWords ==
  { <<"u", "r", "g", "e", "n", "t">>,
    <<"a", "s", "a", "p">>,
    <<"a", "s", " ", "s", "o", "o", "n", " ", "a", "s">>,
    <<"q", "u", "i", "c", "k", "l", "y">> }

\* lines 148-185: the size bucket; semi/terrace and no match both give medium
determineSize(service, answers) ==
  IF answers = Null THEN "medium"
  ELSE LET roughSize == LowerField(answers, "roughSize")
           propertyType == LowerField(answers, "propertyType")
       IN IF roughSize # <<>>
          THEN IF includesAny(roughSize, SmallWords) THEN "small"
               ELSE IF includesAny(roughSize, LargeWords) THEN "large"
               ELSE "medium"
          ELSE IF includesAny(propertyType, CommercialWords) THEN "large"
          ELSE IF includesAny(propertyType, SmallPropertyWords) THEN "small"
          ELSE IF includesAny(propertyType, DetachedWords) THEN "large"
          ELSE "medium"

\* a number that is no integer, as the fraction num/den in lowest terms
RECURSIVE GCD(_, _)
GCD(a, b) == IF b = 0 THEN a ELSE GCD(b, a % b)

Frac(n, d) == LET g == GCD(n, d) IN [num |-> n \div g, den |-> d \div g]

\* the multiplier 1.0
One == [num |-> 1, den |-> 1]

\* multiplier *= MODIFIERS[key], the configured value being in hundredths
Times(m, hundredths) == Frac(m.num * hundredths, m.den * 100)

\* lines 202-247: the five conditions in the order they are tested
ModifierChecks(answers) ==
  LET lastCleaned == LowerField(answers, "lastCleaned")
      specificDetails == LowerField(answers, "specificDetails")
      accessNotes == LowerField(answers, "accessNotes")
  IN << [ key |-> "firstTimeCleaning", reason |-> "First time cleaning",
          fires |-> includesAny(lastCleaned, FirstTimeWords) ],
        [ key |-> "heavilySoiled", reason |-> "Heavily soiled",
          fires |-> includesAny(specificDetails, SoiledWords) ],
        [ key |-> "difficultAccess", reason |-> "Difficult access",
          fires |-> includesAny(accessNotes, DifficultWords) ],
        [ key |-> "heightWork", reason |-> "Height work required",
          fires |-> \/ includesAny(accessNotes, HeightAccessWords)
                    \/ includesAny(specificDetails, HeightDetailWords) ],
        [ key |-> "urgent", reason |-> "Urgent request",
          fires |-> includesAny(specificDetails, UrgentWords) ] >>

\* the product of the configured modifiers of the checks, taken in order
RECURSIVE MultiplyAll(_, _, _)
MultiplyAll(m, checks, MODS) ==
  IF checks = <<>> THEN m
  ELSE MultiplyAll(Times(m, MODS[Head(checks).key]), Tail(checks), MODS)

\* the modifiers as an if / else-if chain: only the first condition that holds counts
calculateModifiersFirstOnly(q, MODS) ==
  IF q.answers = Null THEN [multiplier |-> One, reasons |-> <<>>]
  ELSE LET fired == SelectSeq(ModifierChecks(q.answers), LAMBDA c : c.fires)
           first == IF fired = <<>> THEN fired ELSE <<Head(fired)>>
       IN [ multiplier |-> MultiplyAll(One, first, MODS),
            reasons |-> [i \in 1..Len(first) |-> first[i].reason] ]

\* lines 193-250
calculateModifiers(q, MODS) ==
  IF q.answers = Null THEN [multiplier |-> One, reasons |-> <<>>]
  ELSE LET fired == SelectSeq(ModifierChecks(q.answers), LAMBDA c : c.fires)
       IN [ multiplier |-> MultiplyAll(One, fired, MODS),
            reasons |-> [i \in 1..Len(fired) |-> fired[i].reason] ]

\* a number, kept apart from null
Num(n) == [n |-> n]

\* a boolean, kept apart from null
Flag(b) == [b |-> b]

\* line 23 with the empty list let through: only a missing services list stops
NoServicesListOnly(q) == ~Has(q, "services")

\* line 23: !services || services.length === 0
NoServices(q) == ~Has(q, "services") \/ Len(q.services) = 0

\* line 46-48: the range added for a service without a pricing entry
GenericRange == <<100, 300>>

\* line 55 read the other way round: [max, min]
ServiceRangeSwapped(pricing, size) ==
  IF Has(pricing, size) THEN <<pricing[size][2], pricing[size][1]>>
  ELSE IF Has(pricing, "default") THEN <<pricing.default[2], pricing.default[1]>>
  ELSE Null

\* line 55: pricing[size] || pricing.default, Null for undefined
ServiceRange(pricing, size) ==
  IF Has(pricing, size) THEN pricing[size]
  ELSE IF Has(pricing, "default") THEN pricing.default
  ELSE Null

\* lines 42-59, one turn of the forEach: acc is [raised, min, max, confidence].
\* Destructuring an undefined range throws (TypeError) and ends the loop.
AddService(acc, service, answers, PRICING) ==
  IF acc.raised THEN acc
  ELSE IF ~Has(PRICING, service)
  THEN [acc EXCEPT !.min = @ + GenericRange[1], !.max = @ + GenericRange[2],
                   !.confidence = "low"]
  ELSE LET range == ServiceRange(PRICING[service], determineSize(service, answers))
       IN IF range = Null THEN [acc EXCEPT !.raised = TRUE]
          ELSE [acc EXCEPT !.min = @ + range[1], !.max = @ + range[2]]

\* lines 37-59: the totals and the confidence after the loop
RECURSIVE BaseTotals(_, _, _, _)
BaseTotals(acc, services, answers, PRICING) ==
  IF services = <<>> THEN acc
  ELSE BaseTotals(AddService(acc, Head(services), answers, PRICING),
                  Tail(services), answers, PRICING)

\* line 68 with the boundary off by one
DiscountAbove(count, threshold) == count > threshold

\* line 68: services.length >= MULTI_SERVICE_DISCOUNT.threshold
DiscountApplies(count, threshold) == count >= threshold

\* lines 75-76: Math.round(x / 5) * 5 for x = total * m, m a fraction.
\* Math.round takes a half upwards. The code multiplies in binary floating
\* point, where 1.15 or 0.9 are not exact: when the exact x / 5 lies on a
\* half, the computed one lies on it or just beside it, and the result is
\* the multiple of 5 above (tie = "up") or the one below (tie = "down").
Round5(total, m, tie) ==
  LET n == 2 * total * m.num + 5 * m.den
      d == 10 * m.den
  IN IF n % d = 0 /\ tie = "down" THEN ((n \div d) - 1) * 5 ELSE (n \div d) * 5

\* which way the two roundings of one estimate fall when they meet a half;
\* equal totals are the same number and fall the same way
TieChoices == [min : {"down", "up"}, max : {"down", "up"}]

\* line 71 taken as an upgrade of 'medium' only
UpgradeUnlessLow(confidence, applies) ==
  IF applies /\ confidence # "low" THEN "high" ELSE confidence

\* line 71: confidence = 'high' inside the discount branch
Upgrade(confidence, applies) == IF applies THEN "high" ELSE confidence

\* lines 79-81: !answers || Object.keys(answers).length < 5
Clamp(confidence, answers) ==
  IF answers = Null \/ Cardinality(DOMAIN answers) < 5 THEN "low" ELSE confidence

\* lines 19-89; raised stands for the promise being rejected
calculateEstimate(q, cfg, ties) ==
  IF NoServices(q)
  THEN [ raised |-> FALSE, min |-> Null, max |-> Null,
         version |-> ESTIMATION_VERSION, confidence |-> "none" ]
  ELSE LET base == BaseTotals([raised |-> FALSE, min |-> 0, max |-> 0, confidence |-> "medium"],
                              q.services, q.answers, cfg.SERVICE_PRICING)
           modifiers == calculateModifiers(q, cfg.MODIFIERS)
           MSD == cfg.MULTI_SERVICE_DISCOUNT
           applies == DiscountApplies(Len(q.services), MSD.threshold)
           m == IF applies THEN Times(modifiers.multiplier, MSD.discount)
                ELSE modifiers.multiplier
       IN IF base.raised
          THEN [ raised |-> TRUE, min |-> Null, max |-> Null,
                 version |-> ESTIMATION_VERSION, confidence |-> "none" ]
          ELSE [ raised |-> FALSE,
                 min |-> Num(Round5(base.min, m, ties.min)),
                 max |-> Num(Round5(base.max, m,
                                    IF base.max = base.min THEN ties.min ELSE ties.max)),
                 version |-> ESTIMATION_VERSION,
                 confidence |-> Clamp(Upgrade(base.confidence, applies), q.answers) ]

\* lines 109-123: the selected modifiers multiplied in the order of the code
TestModifiers(activeModifiers, MODS) ==
  LET picked == SelectSeq(<<"firstTimeCleaning", "heavilySoiled", "difficultAccess",
                            "heightWork", "urgent">>,
                          LAMBDA k : Has(activeModifiers, k) /\ activeModifiers[k])
  IN MultiplyAll(One, [i \in DOMAIN picked |-> [key |-> picked[i]]], MODS)

\* lines 106-113: one service of the preview; a service without a pricing
\* entry is passed over
AddTestService(acc, service, sizeKey, PRICING) ==
  IF acc.raised THEN acc
  ELSE IF service \notin DOMAIN PRICING THEN acc
  ELSE LET range == ServiceRange(PRICING[service], sizeKey)
       IN IF range = Null THEN [acc EXCEPT !.raised = TRUE]
          ELSE [acc EXCEPT !.min = @ + range[1], !.max = @ + range[2]]

RECURSIVE TestTotals(_, _, _, _)
TestTotals(acc, services, sizeKey, PRICING) ==
  IF services = <<>> THEN acc
  ELSE TestTotals(AddTestService(acc, Head(services), sizeKey, PRICING),
                  Tail(services), sizeKey, PRICING)

\* lines 97-140: calculateTestEstimate(mockQuote, config)
calculateTestEstimate(mockQuote, cfg, ties) ==
  LET services == IF Has(mockQuote, "services") THEN mockQuote.services ELSE <<>>
      sizeKey == IF Has(mockQuote, "size") /\ mockQuote.size # "" THEN mockQuote.size ELSE "medium"
      base == TestTotals([raised |-> FALSE, min |-> 0, max |-> 0], services, sizeKey,
                         cfg.SERVICE_PRICING)
      multiplier == IF Has(mockQuote, "modifiers") THEN TestModifiers(mockQuote.modifiers, cfg.MODIFIERS)
                    ELSE One
      MSD == cfg.MULTI_SERVICE_DISCOUNT
      m == IF DiscountApplies(Len(services), MSD.threshold) THEN Times(multiplier, MSD.discount)
           ELSE multiplier
  IN IF base.raised THEN [raised |-> TRUE, min |-> Null, max |-> Null]
     ELSE [ raised |-> FALSE,
            min |-> Num(Round5(base.min, m, ties.min)),
            max |-> Num(Round5(base.max, m, IF base.max = base.min THEN ties.min ELSE ties.max)) ]

\* ----------------------------------------------------- services/scorer.js

\* calculateLeadScore, line 75
PhoneWords ==
  { <<"p", "h", "o", "n", "e">>,
    <<"c", "a", "l", "l">> }

\* calculateLeadScore, line 78
EmailWords ==
  { <<"e", "m", "a", "i", "l">> }

\* calculateLeadScore, lines 103-107
UrgencyWords ==
  { <<"u", "r", "g", "e", "n", "t">>,
    <<"a", "s", "a", "p">>,
    <<"a", "s", " ", "s", "o", "o", "n", " ", "a", "s">>,
    <<"q", "u", "i", "c", "k", "l", "y">>,
    <<"i", "m", "m", "e", "d", "i", "a", "t", "e">> }

\* one block of calculateLeadScore: what it adds to the score and what it
\* pushes on reasons
Hit(bonus, reason) == [bonus |-> bonus, reasons |-> <<reason>>]
Miss == [bonus |-> 0, reasons |-> <<>>]

\* lines 33-44: the value block, for estimate.max truthy (not undefined, not
\* null, not 0); the reason text carries estimate.max
ValueStep(est, LS) ==
  IF ~Has(est, "max") \/ est.max = Null \/ est.max = Num(0) THEN Miss
  ELSE IF est.max.n >= LS.veryHighValueThreshold
       THEN Hit(LS.veryHighValueBonus, [text |-> "High-value job", n |-> est.max.n])
  ELSE IF est.max.n >= LS.highValueThreshold
       THEN Hit(LS.highValueBonus, [text |-> "Good-value job", n |-> est.max.n])
  ELSE Miss

ValueBonus(est, LS) == ValueStep(est, LS).bonus

\* lines 49-60; the first reason text carries services.length
ServicesStep(q, LS) ==
  IF NoServices(q) THEN Miss
  ELSE IF Len(q.services) >= 3
       THEN Hit(LS.manyServicesBonus, [text |-> "Multiple services", n |-> Len(q.services)])
  ELSE IF Len(q.services) >= 2
       THEN Hit(LS.multipleServicesBonus, [text |-> "Two services selected"])
  ELSE Miss

ServicesBonus(q, LS) == ServicesStep(q, LS).bonus

\* lines 67-70: remindersOk === true
RemindersStep(q, LS) ==
  IF Has(q, "remindersOk") /\ q.remindersOk = TRUE
  THEN Hit(LS.remindersOptIn, [text |-> "Opted in to reminders"])
  ELSE Miss

RemindersBonus(q, LS) == RemindersStep(q, LS).bonus

\* lines 73-82
ContactStep(q, LS) ==
  IF ~Has(q, "preferredContact") \/ q.preferredContact = <<>> THEN Miss
  ELSE LET method == toLowerCase(q.preferredContact)
       IN IF includesAny(method, PhoneWords)
          THEN Hit(LS.phonePreferred, [text |-> "Prefers phone contact"])
          ELSE IF includesAny(method, EmailWords)
          THEN Hit(LS.emailPreferred, [text |-> "Prefers email contact"])
          ELSE Miss

ContactBonus(q, LS) == ContactStep(q, LS).bonus

\* lines 87-93
CommercialStep(q, LS) ==
  IF q.answers # Null /\ includesAny(LowerField(q.answers, "propertyType"), CommercialWords)
  THEN Hit(LS.commercialProperty, [text |-> "Commercial property"])
  ELSE Miss

CommercialBonus(q, LS) == CommercialStep(q, LS).bonus

\* lines 98-111
UrgencyStep(q, LS) ==
  IF q.answers = Null THEN Miss
  ELSE LET combinedText == JoinWithSpace(LowerField(q.answers, "specificDetails"),
                                         LowerField(q.answers, "accessNotes"))
       IN IF includesAny(combinedText, UrgencyWords)
          THEN Hit(LS.urgentLanguage, [text |-> "Urgent request"])
          ELSE Miss

UrgencyBonus(q, LS) == UrgencyStep(q, LS).bonus

\* reasons with the urgency block evaluated first
ReasonsUrgencyFirst(q, est, LS) ==
  UrgencyStep(q, LS).reasons \o ValueStep(est, LS).reasons \o ServicesStep(q, LS).reasons
  \o RemindersStep(q, LS).reasons \o ContactStep(q, LS).reasons \o CommercialStep(q, LS).reasons

\* lines 28-111: reasons, pushed block by block in the order of the code
Reasons(q, est, LS) ==
  ValueStep(est, LS).reasons \o ServicesStep(q, LS).reasons \o RemindersStep(q, LS).reasons
  \o ContactStep(q, LS).reasons \o CommercialStep(q, LS).reasons \o UrgencyStep(q, LS).reasons

\* line 116: Math.min(score, 100), in tenths
Cap(score) == IF score > 1000 THEN 1000 ELSE score

\* lines 124-136 with strict comparisons
QualifyStrict(score, QT) ==
  IF score > QT.hot THEN "hot"
  ELSE IF score > QT.warm THEN "warm"
  ELSE IF score > QT.cold THEN "cold"
  ELSE "unqualified"

\* lines 124-136: the tier, thresholds taken in descending order with >=
Qualify(score, QT) ==
  IF score >= QT.hot THEN "hot"
  ELSE IF score >= QT.warm THEN "warm"
  ELSE IF score >= QT.cold THEN "cold"
  ELSE "unqualified"

\* lines 126-135: the CONVERSION_FACTORS key of a tier
FactorKey(qualification) ==
  CASE qualification = "hot" -> "hotLead"
    [] qualification = "warm" -> "warmLead"
    [] qualification = "cold" -> "coldLead"
    [] OTHER -> "unqualified"

\* line 139: Math.round(score), tenths to whole points, a half going up
MathRound(tenths) == (tenths + 5) \div 10

\* lines 18-144: the tier is taken from the capped score (line 124), the
\* score is rounded in the return statement (line 139)
calculateLeadScore(q, est, cfg) ==
  LET LS == cfg.LEAD_SCORING
      score == Cap(LS.baseScore + ValueBonus(est, LS) + ServicesBonus(q, LS)
                   + RemindersBonus(q, LS) + ContactBonus(q, LS)
                   + CommercialBonus(q, LS) + UrgencyBonus(q, LS))
      qualification == Qualify(score, cfg.QUALIFICATION_THRESHOLDS)
  IN [ score |-> MathRound(score),
       qualification |-> qualification,
       conversionLikelihood |-> cfg.CONVERSION_FACTORS[FactorKey(qualification)],
       reasons |-> Reasons(q, est, LS) ]

\* lines 152-155 with the score alone
shouldAlertAdminByScore(score, qualification) == score >= 85

\* lines 152-155
shouldAlertAdmin(score, qualification) == qualification = "hot" /\ score >= 85

\* ------------------------------------------------- submissions and rules

\* services a submission may name
MaxServices == 3

\* "patio" has no entry in the default pricing
ServiceIds == {"roof", "gutter", "patio"}

ServiceLists == UNION { [1..n -> ServiceIds] : n \in 0..MaxServices }

\* answers.lastCleaned as typed
LastCleanedTexts ==
  { <<"L", "a", "s", "t", " ", "s", "p", "r", "i", "n", "g">>,
    <<"3", " ", "Y", "e", "a", "r", "s", " ", "a", "g", "o">> }

\* answers.specificDetails as typed
DetailTexts ==
  { <<"L", "i", "g", "h", "t", " ", "d", "i", "r", "t">>,
    <<"M", "o", "s", "s", " ", "o", "n", " ", "t", "i", "l", "e", "s">>,
    <<"N", "e", "e", "d", "e", "d", " ", "A", "S", "A", "P">>,
    <<"S", "t", "a", "i", "n", "e", "d", ",", " ", "u", "r", "g", "e", "n", "t", " ", "j", "o", "b">> }

\* answers.accessNotes as typed
AccessTexts ==
  { <<"E", "a", "s", "y">>,
    <<"N", "a", "r", "r", "o", "w", " ", "s", "i", "d", "e", " ", "g", "a", "t", "e">>,
    <<"T", "a", "l", "l", " ", "h", "e", "d", "g", "e">>,
    <<"D", "i", "f", "f", "i", "c", "u", "l", "t", ",", " ", "t", "w", "o", " ", "s", "t", "o", "r", "e", "y">> }

\* the example submission of the production test script (part_007:277-297)
ExampleAnswers ==
  [ propertyType |-> <<"D", "e", "t", "a", "c", "h", "e", "d", " ", "h", "o", "u", "s", "e">>,
    roughSize |-> <<"l", "a", "r", "g", "e">>,
    lastCleaned |-> <<"o", "v", "e", "r", " ", "a", " ", "y", "e", "a", "r", " ", "a", "g", "o">>,
    specificDetails |-> <<"M", "o", "s", "s", " ", "b", "u", "i", "l", "d", "u", "p", " ", "o", "n", " ", "r", "o", "o", "f">>,
    accessNotes |-> <<"G", "o", "o", "d", " ", "a", "c", "c", "e", "s", "s", " ", "f", "r", "o", "m", " ", "d", "r", "i", "v", "e", "w", "a", "y">> ]

\* a form sent with every field left empty
BlankAnswers ==
  [ propertyType |-> <<>>, roughSize |-> <<>>, lastCleaned |-> <<>>,
    specificDetails |-> <<>>, accessNotes |-> <<>> ]

\* answers objects: absent, empty, sparse, blank, the example, and full ones
\* with every combination of last-cleaned, details and access texts
AnswerSets ==
  { Null, EmptyObj, BlankAnswers, ExampleAnswers,
    [ propertyType |-> <<"B", "u", "n", "g", "a", "l", "o", "w">> ],
    [ propertyType |-> <<"C", "o", "m", "m", "e", "r", "c", "i", "a", "l", " ", "u", "n", "i", "t">>, roughSize |-> <<"C", "o", "m", "p", "a", "c", "t">> ],
    [ propertyType |-> <<"B", "u", "s", "i", "n", "e", "s", "s", " ", "p", "a", "r", "k">>, specificDetails |-> <<"I", "m", "m", "e", "d", "i", "a", "t", "e", " ", "s", "t", "a", "r", "t">> ] }
  \cup
  { [ propertyType |-> <<"S", "e", "m", "i", "-", "d", "e", "t", "a", "c", "h", "e", "d">>, roughSize |-> <<"B", "i", "g">>,
      lastCleaned |-> l, specificDetails |-> d, accessNotes |-> a ] :
      l \in LastCleanedTexts, d \in DetailTexts, a \in AccessTexts }

\* remindersOk and preferredContact of a submission
ContactParts ==
  { EmptyObj,
    [ remindersOk |-> TRUE, preferredContact |-> <<"P", "h", "o", "n", "e", " ", "c", "a", "l", "l">> ],
    [ remindersOk |-> FALSE, preferredContact |-> <<"E", "m", "a", "i", "l">> ] }

\* the quote handed to calculateEstimate and calculateLeadScore
Quotes ==
  { [answers |-> a] @@ c @@ s :
      a \in AnswerSets, c \in ContactParts,
      s \in {EmptyObj} \cup { [services |-> l] : l \in ServiceLists } }

\* bodies of PUT /admin/settings/pricing whose stored result the estimator meets
RuleUpdates ==
  { [multiServiceDiscount |-> [threshold |-> 2, discount |-> 80]],
    [modifiers |-> [urgent |-> 150]],
    [servicePricing |-> [roof |-> [small |-> <<100, 200>>]]],
    [servicePricing |-> [roof |-> [small |-> <<100, 200>>, default |-> <<200, 300>>],
                        gutter |-> [default |-> <<100, 100>>]]],
    [leadScoring |-> [baseScore |-> 290, emailPreferred |-> 10]],
    [leadScoring |-> [remindersOptIn |-> -200]],
    [leadScoring |-> [emailPreferred |-> 45]] }

\* what getPricingConfig() can return: the defaults, or what a load gives
\* after an update the admin endpoint accepted
RuleSets ==
  {getFileDefaults} \cup
  { mergeWithDefaults(BuildNewConfig(u, getFileDefaults)) :
      u \in {v \in RuleUpdates : ~Rejected(v)} }

\* ----------------------------------------------------------------- actions
\* A handler runs without interruption from one await to the next (Node's
\* event loop), so an action is the code between two awaits; the store
\* executing a call is an action of its own, between the call and its resume.

Free(p) == pc[p] \in {"idle", "done"}

\* a new request takes the first handler that is free (handlers are alike)
Idle(p) == Free(p) /\ \A q \in Procs : q < p => ~Free(q)

\* a handler that has answered keeps, for the record, what it got and what it
\* answered; its working variables are gone
Answered(l) ==
  [InitLoc EXCEPT !.id = l.id, !.hit = l.hit, !.read = l.read, !.resp = l.resp,
                  !.config = l.config, !.raised = l.raised, !.wrote = l.wrote,
                  !.logged = l.logged, !.logFailed = l.logFailed, !.status = l.status]

Set(p, l) == loc' = [loc EXCEPT ![p] = l]

Goto(p, where) == pc' = [pc EXCEPT ![p] = where]

\* answer the request
End(p, l) == loc' = [loc EXCEPT ![p] = Answered(l)] /\ pc' = [pc EXCEPT ![p] = "done"]

\* go on from where AfterGet left the handler
Land(p, a) == IF a.pc = "done" THEN End(p, a.loc) ELSE Set(p, a.loc) /\ Goto(p, a.pc)

\* what a handler does with the configuration getPricingConfig returned, up
\* to its next await: [pc, loc] it is left with
\*   estimator.js:33, scorer.js:22  the estimate or score goes on
\*   admin.js:1510-1586, pricingConfig.js:88-97  validate, build, send upsert
\*   admin.js:1624, pricingConfig.js:112-118  send the delete
\* A failure before the store call is a 500 (catch, lines 1610 and 1637).
AfterGet(o, l) ==
  IF o = "estimate" THEN [pc |-> "done", loc |-> l]
  ELSE IF l.raised THEN [pc |-> "done", loc |-> [l EXCEPT !.status = 500]]
  ELSE IF o = "reset"
  THEN IF supabase THEN [pc |-> "reset_await", loc |-> l]
       ELSE [pc |-> "done", loc |-> [l EXCEPT !.status = 500]]
  ELSE IF Rejected(l.body) THEN [pc |-> "done", loc |-> [l EXCEPT !.status = 400]]
  ELSE LET m == [l EXCEPT !.newConfig = BuildNewConfig(l.body, l.config),
                          !.changedSections = ChangedSections(l.body)]
       IN IF supabase THEN [pc |-> "save_await", loc |-> m]
          ELSE [pc |-> "done", loc |-> [m EXCEPT !.status = 500]]

\* pricingConfig.js:27-34 and 54-65: getPricingConfig up to its await. A cache
\* hit returns the cached value; a miss sends the select; without a client
\* the call falls straight through to the defaults, which it caches.
CallGet(p, o, l) ==
  IF CacheHit
  THEN LET a == AfterGet(o, [l EXCEPT !.hit = TRUE, !.config = cachedConfig])
       IN /\ Land(p, a)
          /\ UNCHANGED <<cachedConfig, cacheTimestamp>>
  ELSE IF supabase
  THEN /\ Set(p, l) /\ Goto(p, "get_await")
       /\ UNCHANGED <<cachedConfig, cacheTimestamp>>
  ELSE LET a == AfterGet(o, [l EXCEPT !.config = getFileDefaults,
                                      !.read = FailResponse("noclient")])
       IN /\ cachedConfig' = getFileDefaults
          /\ cacheTimestamp' = now
          /\ Land(p, a)

\* the variables of the handler of a new request
NewLoc == [InitLoc EXCEPT !.id = requests + 1]

\* pricingConfig.js:13-15 setSupabaseClient(client). index.js hands the client
\* to the admin routes only, so a request may run before this module has one.
SetSupabaseClient ==
  /\ ~supabase
  /\ supabase' = TRUE
  /\ UNCHANGED <<cachedConfig, cacheTimestamp, now, store, history, pc, op, loc, requests>>

\* the clock moves on to a later instant
Tick ==
  /\ \E t \in Instants : t > now /\ now' = t
  /\ UNCHANGED <<supabase, cachedConfig, cacheTimestamp, store, history, pc, op, loc, requests>>

\* estimator.js:33, scorer.js:22: an estimate or a score asks for the config
StartEstimate(p) ==
  /\ Idle(p)
  /\ requests < MaxRequests
  /\ requests' = requests + 1
  /\ op' = [op EXCEPT ![p] = "estimate"]
  /\ CallGet(p, "estimate", NewLoc)
  /\ UNCHANGED <<supabase, now, store, history>>

\* admin.js:1500-1508: PUT /admin/settings/pricing; an empty body is a 400
StartUpdate(p) ==
  /\ Idle(p)
  /\ requests < MaxRequests
  /\ requests' = requests + 1
  /\ op' = [op EXCEPT ![p] = "update"]
  /\ \E updates \in UpdateBodies :
       IF DOMAIN updates = {}
       THEN /\ End(p, [NewLoc EXCEPT !.status = 400])
            /\ UNCHANGED <<cachedConfig, cacheTimestamp>>
       ELSE CallGet(p, "update", [NewLoc EXCEPT !.body = updates])
  /\ UNCHANGED <<supabase, now, store, history>>

\* admin.js:1620-1622: POST /admin/settings/pricing/reset
StartReset(p) ==
  /\ Idle(p)
  /\ requests < MaxRequests
  /\ requests' = requests + 1
  /\ op' = [op EXCEPT ![p] = "reset"]
  /\ CallGet(p, "reset", NewLoc)
  /\ UNCHANGED <<supabase, now, store, history>>

\* the store answers the select with the row as it is now
DbSelectOk(p) ==
  /\ pc[p] = "get_await"
  /\ Set(p, [loc[p] EXCEPT !.read = SelectResponse(store)])
  /\ Goto(p, "get_resp")
  /\ UNCHANGED <<supabase, cachedConfig, cacheTimestamp, now, store, history, op, requests>>

\* the select throws or returns an error
DbSelectFail(p) ==
  /\ pc[p] = "get_await"
  /\ \E c \in {"throws", "error"} : Set(p, [loc[p] EXCEPT !.read = FailResponse(c)])
  /\ Goto(p, "get_resp")
  /\ UNCHANGED <<supabase, cachedConfig, cacheTimestamp, now, store, history, op, requests>>

\* pricingConfig.js:42-65: after the await, cache and return what was loaded;
\* the caller goes on with it
GetResume(p) ==
  /\ pc[p] = "get_resp"
  /\ LET r == loadFromResponse(loc[p].read)
         l == [loc[p] EXCEPT !.read.data = Null]
     IN IF r.raised
        THEN LET a == AfterGet(op[p], [l EXCEPT !.raised = TRUE])
             IN /\ Land(p, a)
                /\ UNCHANGED <<cachedConfig, cacheTimestamp>>
        ELSE LET a == AfterGet(op[p], [l EXCEPT !.config = r.config])
             IN /\ cachedConfig' = r.config
                /\ cacheTimestamp' = now
                /\ Land(p, a)
  /\ UNCHANGED <<supabase, now, store, history, op, requests>>

\* the store takes the upsert: the row now holds the new configuration
DbUpsertOk(p) ==
  /\ pc[p] = "save_await"
  /\ store' = Row(loc[p].newConfig)
  /\ Set(p, [loc[p] EXCEPT !.resp = OkResponse, !.wrote = (store' # store)])
  /\ Goto(p, "save_resp")
  /\ UNCHANGED <<supabase, cachedConfig, cacheTimestamp, now, history, op, requests>>

\* the upsert throws or returns an error: the row is as it was
DbUpsertFail(p) ==
  /\ pc[p] = "save_await"
  /\ \E c \in {"throws", "error"} : Set(p, [loc[p] EXCEPT !.resp = FailResponse(c)])
  /\ Goto(p, "save_resp")
  /\ UNCHANGED <<supabase, cachedConfig, cacheTimestamp, now, store, history, op, requests>>

\* pricingConfig.js:99-105: throw on error (a 500), else invalidate the cache
\* and return; admin.js:1589 starts logging the changed sections
SaveResume(p) ==
  /\ pc[p] = "save_resp"
  /\ IF saveOutcome(loc[p].resp) = "throws"
     THEN /\ End(p, [loc[p] EXCEPT !.status = 500])
          /\ UNCHANGED <<cachedConfig, cacheTimestamp>>
     ELSE /\ cachedConfig' = Null
          /\ cacheTimestamp' = 0
          /\ Set(p, [loc[p] EXCEPT !.pending = loc[p].changedSections])
          /\ Goto(p, "log")
  /\ UNCHANGED <<supabase, now, store, history, op, requests>>

\* the store takes the delete: no row is left
DbDeleteOk(p) ==
  /\ pc[p] = "reset_await"
  /\ store' = NoRecord
  /\ Set(p, [loc[p] EXCEPT !.resp = OkResponse, !.wrote = (store' # store)])
  /\ Goto(p, "reset_resp")
  /\ UNCHANGED <<supabase, cachedConfig, cacheTimestamp, now, history, op, requests>>

\* the delete throws or returns an error: the row is as it was
DbDeleteFail(p) ==
  /\ pc[p] = "reset_await"
  /\ \E c \in {"throws", "error"} : Set(p, [loc[p] EXCEPT !.resp = FailResponse(c)])
  /\ Goto(p, "reset_resp")
  /\ UNCHANGED <<supabase, cachedConfig, cacheTimestamp, now, store, history, op, requests>>

\* pricingConfig.js:120-124: invalidate the cache and report success;
\* admin.js:1627 logs the reset
ResetResume(p) ==
  /\ pc[p] = "reset_resp"
  /\ IF resetOutcome(loc[p].resp) = "throws"
     THEN /\ End(p, [loc[p] EXCEPT !.status = 500])
          /\ UNCHANGED <<cachedConfig, cacheTimestamp>>
     ELSE /\ cachedConfig' = Null
          /\ cacheTimestamp' = 0
          /\ Set(p, [loc[p] EXCEPT !.pending = <<FullReset>>])
          /\ Goto(p, "log")
  /\ UNCHANGED <<supabase, now, store, history, op, requests>>

\* one logPricingChange call of the handler, its insert having outcome c
LogStep(p, c) ==
  /\ pc[p] = "log" /\ loc[p].pending # <<>>
  /\ LET r == logPricingChange(supabase, c)
         rec == ChangeRecord(Head(loc[p].pending), loc[p])
     IN /\ history' = IF r.appended THEN Append(history, rec) ELSE history
        /\ IF r.raised
           THEN End(p, [loc[p] EXCEPT !.status = 500, !.logFailed = TRUE])
           ELSE /\ Set(p, [loc[p] EXCEPT !.pending = Tail(loc[p].pending),
                                         !.logged = IF r.appended THEN @ + 1 ELSE @,
                                         !.logFailed = @ \/ ~r.appended])
                /\ UNCHANGED pc
  /\ UNCHANGED <<supabase, cachedConfig, cacheTimestamp, now, store, op, requests>>

\* the history insert succeeds
LogInsertOk(p) == LogStep(p, "ok")

\* the history insert throws or returns an error
LogInsertFail(p) == \E c \in {"throws", "error"} : LogStep(p, c)

\* admin.js:1608 and 1635: res.json({ success: true })
Respond(p) ==
  /\ pc[p] = "log" /\ loc[p].pending = <<>>
  /\ End(p, [loc[p] EXCEPT !.status = 200])
  /\ UNCHANGED <<supabase, cachedConfig, cacheTimestamp, now, store, history, op, requests>>

\* ---------------------------------------------------------- specifications

\* the steps of one request handler and of the store calls it awaits
Handler(p) ==
  \/ StartEstimate(p) \/ StartUpdate(p) \/ StartReset(p)
  \/ DbSelectOk(p) \/ DbSelectFail(p) \/ GetResume(p)
  \/ DbUpsertOk(p) \/ DbUpsertFail(p) \/ SaveResume(p)
  \/ DbDeleteOk(p) \/ DbDeleteFail(p) \/ ResetResume(p)
  \/ LogInsertOk(p) \/ LogInsertFail(p) \/ Respond(p)

\* the same, the store answering every call
HandlerNoFaults(p) ==
  \/ StartEstimate(p) \/ StartUpdate(p) \/ StartReset(p)
  \/ DbSelectOk(p) \/ GetResume(p)
  \/ DbUpsertOk(p) \/ SaveResume(p)
  \/ DbDeleteOk(p) \/ ResetResume(p)
  \/ LogInsertOk(p) \/ Respond(p)

Next ==
  /\ SetSupabaseClient \/ Tick \/ \E p \in Procs : Handler(p)
  /\ UNCHANGED estimation

\* requests overlap; the store may fail any call
Spec == Init /\ [][Next]_vars

NextSeq ==
  /\ SetSupabaseClient \/ Tick \/ Handler(1)
  /\ UNCHANGED estimation

\* one request at a time; the store may fail any call
SpecSeq == Init /\ [][NextSeq]_vars

InitReady ==
  /\ supabase = TRUE
  /\ cachedConfig = Null
  /\ cacheTimestamp = 0
  /\ now = StartTime
  /\ store \in InitialStores
  /\ history = <<>>
  /\ pc = [p \in Procs |-> "idle"]
  /\ op = [p \in Procs |-> "none"]
  /\ loc = [p \in Procs |-> InitLoc]
  /\ requests = 0
  /\ NoEstimation

NextNoFaults ==
  /\ Tick \/ \E p \in Procs : HandlerNoFaults(p)
  /\ UNCHANGED estimation

\* requests overlap; the client is set and the store answers every call
SpecNoFaults == InitReady /\ [][NextNoFaults]_vars


\* ------------------------------------------------------------- estimation

\* estimator.js:19-89: calculateEstimate(quote) with the configuration it got
Estimate ==
  /\ step = "new"
  /\ \E ties \in TieChoices : estimate' = calculateEstimate(quote, rules, ties)
  /\ step' = "estimated"
  /\ UNCHANGED <<quote, rules, scoring, alert, job, preview>>

\* scorer.js:18-144: calculateLeadScore(quote, estimate)
Score ==
  /\ step = "estimated"
  /\ ~estimate.raised
  /\ scoring' = calculateLeadScore(quote, estimate, rules)
  /\ step' = "scored"
  /\ UNCHANGED <<quote, rules, estimate, alert, job, preview>>

InitEstimation ==
  /\ supabase = TRUE
  /\ cachedConfig = Null
  /\ cacheTimestamp = 0
  /\ now = StartTime
  /\ store = NoRecord
  /\ history = <<>>
  /\ pc = [p \in Procs |-> "idle"]
  /\ op = [p \in Procs |-> "none"]
  /\ loc = [p \in Procs |-> InitLoc]
  /\ requests = 0
  /\ quote \in Quotes
  /\ rules \in RuleSets
  /\ estimate = Null
  /\ scoring = Null
  /\ step = "new"
  /\ alert = Null
  /\ job = Null
  /\ preview = Null

NextEstimation ==
  /\ Estimate \/ Score
  /\ UNCHANGED <<supabase, cachedConfig, cacheTimestamp, now, store, history, pc, op, loc, requests>>

\* one submission estimated and scored under one configuration
SpecEstimation == InitEstimation /\ [][NextEstimation]_vars

\* ------------------------------------------------------- estimationJob.js

\* the value of a property that is not there
Undefined == [undefined |-> TRUE]

\* a Promise object: what a call of an async function returns when it is not
\* awaited; it has none of the properties of the value it will hold
APromise == [promise |-> TRUE]

\* o.k
Get(o, k) == IF Has(o, k) THEN o[k] ELSE Undefined

\* index.js:147-165: the row the intake inserts, which is the quote handed to
\* queueEstimation (snake_case columns; x || null)
SavedQuote(body) ==
  [ services |-> IF Has(body, "services") THEN body.services ELSE <<>>,
    answers |-> body.answers,
    preferred_contact |-> IF Has(body, "preferredContact") THEN body.preferredContact ELSE Null,
    reminders_ok |-> IF Has(body, "remindersOk") /\ body.remindersOk THEN Flag(TRUE) ELSE Null ]

\* part_003:231-237: the catch block returns the failure
Caught(message) ==
  [ success |-> FALSE, raised |-> FALSE, error |-> message, row |-> Null, sent |-> {} ]

\* part_003:130-238: processEstimation, given what lines 135 and 140 assigned
\* to estimate and scoring and what the environment answers; row is the
\* update of the quotes row, sent the messages handed to the senders
processEstimation(q, est, sc, env) ==
  IF Get(sc, "reasons") = Undefined
  THEN Caught("Cannot read properties of undefined (reading 'length')")   \* line 143
  ELSE IF env.update = "error"
  THEN Caught("update failed")                                            \* lines 163-166
  ELSE [ success |-> TRUE, raised |-> FALSE, error |-> "",
         row |-> [ estimated_value_min |-> Get(est, "min"),
                   estimated_value_max |-> Get(est, "max"),
                   estimation_engine_version |-> Get(est, "version"),
                   lead_score |-> Get(sc, "score"),
                   qualification_status |-> Get(sc, "qualification"),
                   conversion_likelihood |-> Get(sc, "conversionLikelihood") ],
         sent |-> {"estimate WhatsApp", "estimate email"}
                  \cup (IF Has(sc, "score") /\ shouldAlertAdmin(sc.score, sc.qualification)
                        THEN {"admin alert email"}
                             \cup (IF env.adminPhone THEN {"admin alert WhatsApp"} ELSE {})
                        ELSE {}) ]

\* what the environment of one job answers: the update of the quotes row,
\* and whether process.env.ADMIN_PHONE is set
JobEnvs == [update : {"ok", "error"}, adminPhone : BOOLEAN]

\* answers of the submissions that are queued
JobAnswers == { a \in AnswerSets : a = Null \/ ~Has(a, "lastCleaned") \/ a \in {ExampleAnswers, BlankAnswers} }

JobQuotes == { SavedQuote(q) : q \in { r \in Quotes : r.answers \in JobAnswers } }

\* part_003:247-251 and 130-238: the timer fires and processEstimation runs
\* to its return; calculateEstimate (line 135) and calculateLeadScore (line
\* 140) are called without await, so estimate and scoring are promises
ProcessEstimation ==
  /\ step = "queued"
  /\ estimate' = APromise
  /\ scoring' = APromise
  /\ job' = [job EXCEPT !.result = processEstimation(quote, APromise, APromise, job.env)]
  /\ step' = "returned"
  /\ UNCHANGED <<quote, rules, alert, preview>>

\* the promise of line 135 settles: calculateEstimate returns or raises with
\* nobody awaiting it; a rejection without a handler is reported by the
\* runtime, as a warning or as an uncaught exception that ends the process
EstimateSettles ==
  /\ step = "returned"
  /\ estimate = APromise
  /\ job.escaped = "none"
  /\ \E ties \in TieChoices, outcome \in {"warning", "uncaught exception"} :
       LET e == calculateEstimate(quote, rules, ties)
       IN /\ estimate' = e
          /\ job' = [job EXCEPT !.escaped = IF e.raised THEN outcome ELSE "none"]
  /\ UNCHANGED <<quote, rules, scoring, step, alert, preview>>

\* the promise of line 140 settles: calculateLeadScore was given the promise
\* of line 135 as its estimate
ScoreSettles ==
  /\ step = "returned"
  /\ scoring = APromise
  /\ job.escaped # "uncaught exception"
  /\ scoring' = calculateLeadScore(quote, APromise, rules)
  /\ UNCHANGED <<quote, rules, estimate, step, alert, job, preview>>

InitJob ==
  /\ supabase = TRUE
  /\ cachedConfig = Null
  /\ cacheTimestamp = 0
  /\ now = StartTime
  /\ store = NoRecord
  /\ history = <<>>
  /\ pc = [p \in Procs |-> "idle"]
  /\ op = [p \in Procs |-> "none"]
  /\ loc = [p \in Procs |-> InitLoc]
  /\ requests = 0
  /\ quote \in JobQuotes
  /\ rules \in RuleSets
  /\ estimate = Null
  /\ scoring = Null
  /\ step = "queued"
  /\ alert = Null
  /\ job \in [env : JobEnvs, result : {Null}, escaped : {"none"}]
  /\ preview = Null

NextJob ==
  /\ ProcessEstimation \/ EstimateSettles \/ ScoreSettles
  /\ UNCHANGED <<supabase, cachedConfig, cacheTimestamp, now, store, history, pc, op, loc, requests>>

\* one queued quote processed
SpecJob == InitJob /\ [][NextJob]_vars

\* ------------------------------------------------------ the test preview

\* the body of POST /admin/settings/pricing/test-estimate that matches a
\* submission: its services, the size determineSize infers and the
\* modifiers whose conditions calculateModifiers detects
MockQuoteOf(q) ==
  [ services |-> q.services,
    size |-> determineSize("", q.answers) ]
  @@ (IF q.answers = Null THEN EmptyObj
      ELSE [ modifiers |->
               LET checks == ModifierChecks(q.answers)
               IN [ k \in { checks[i].key : i \in DOMAIN checks } |->
                      \E i \in DOMAIN checks : checks[i].key = k /\ checks[i].fires ] ])

\* admin.js:1643-1664: testEstimate for the body that matches the
\* submission, under the configuration the estimator had; the arithmetic is
\* the estimator's, so a half is rounded the way it was for the estimate
TestEstimate ==
  /\ step = "estimated"
  /\ \E ties \in TieChoices :
       /\ calculateEstimate(quote, rules, ties) = estimate
       /\ preview' = calculateTestEstimate(MockQuoteOf(quote), rules, ties)
  /\ step' = "previewed"
  /\ UNCHANGED <<quote, rules, estimate, scoring, alert, job>>

\* submissions a preview can match: at least one service (admin.js:1647)
PreviewQuotes == { q \in Quotes : ~NoServices(q) /\ ~Has(q, "remindersOk") }

InitPreview ==
  /\ supabase = TRUE
  /\ cachedConfig = Null
  /\ cacheTimestamp = 0
  /\ now = StartTime
  /\ store = NoRecord
  /\ history = <<>>
  /\ pc = [p \in Procs |-> "idle"]
  /\ op = [p \in Procs |-> "none"]
  /\ loc = [p \in Procs |-> InitLoc]
  /\ requests = 0
  /\ quote \in PreviewQuotes
  /\ rules \in RuleSets
  /\ estimate = Null
  /\ scoring = Null
  /\ step = "new"
  /\ alert = Null
  /\ job = Null
  /\ preview = Null

NextPreview ==
  /\ Estimate \/ TestEstimate
  /\ UNCHANGED <<supabase, cachedConfig, cacheTimestamp, now, store, history, pc, op, loc, requests>>

\* one submission estimated, and previewed with the matching test body
SpecPreview == InitPreview /\ [][NextPreview]_vars

\* ------------------------------------------------------- shouldAlertAdmin

\* the highest score calculateLeadScore returns (Math.min(score, 100))
MaxScore == 100

Tiers == {"hot", "warm", "cold", "unqualified"}

\* scorer.js:152-155 applied to a score and a qualification
ShouldAlertAdmin ==
  /\ step = "scored"
  /\ alert' = Flag(shouldAlertAdmin(scoring.score, scoring.qualification))
  /\ step' = "alerted"
  /\ UNCHANGED <<quote, rules, estimate, scoring, job, preview>>

InitAlert ==
  /\ supabase = TRUE
  /\ cachedConfig = Null
  /\ cacheTimestamp = 0
  /\ now = StartTime
  /\ store = NoRecord
  /\ history = <<>>
  /\ pc = [p \in Procs |-> "idle"]
  /\ op = [p \in Procs |-> "none"]
  /\ loc = [p \in Procs |-> InitLoc]
  /\ requests = 0
  /\ quote = EmptyObj
  /\ rules = Null
  /\ estimate = Null
  /\ scoring \in [score : 0..MaxScore, qualification : Tiers]
  /\ step = "scored"
  /\ alert = Null
  /\ job = Null
  /\ preview = Null

NextAlert ==
  /\ ShouldAlertAdmin
  /\ UNCHANGED <<supabase, cachedConfig, cacheTimestamp, now, store, history, pc, op, loc, requests>>

\* the predicate applied to every pair of a score and a qualification
SpecAlert == InitAlert /\ [][NextAlert]_vars


\* ------------------------------------------------------------------ claims

\* what a load returns for the row the store holds now
LoadResult == loadFromResponse(SelectResponse(store)).config

\* getPricingConfig has returned to the handler p a configuration
Got(p) == loc[p].config # Null

\* savePricingConfig or resetPricingConfig has returned successfully to some
\* handler, and no other write stands between the store's answer and its return
WriteReturned ==
  /\ \E p \in Procs :
       /\ op[p] \in {"update", "reset"}
       /\ pc[p] = "log" \/ (pc[p] = "done" /\ loc[p].status = 200)
  /\ \A p \in Procs : pc[p] \notin {"save_resp", "reset_resp"}

\* C1: after savePricingConfig or resetPricingConfig has returned successfully,
\* the next getPricingConfig() call returns the stored configuration merged
\* with the defaults (the defaults after a reset): a call that would be answered
\* from the cache finds there what a load of the store gives, also when another
\* call's read was in flight across the write.
C1_NextGetReflectsWrite ==
  (WriteReturned /\ CacheHit) => cachedConfig = LoadResult

\* the configuration a response of the select loads to
Loaded(read) ==
  IF read.cause = "row" THEN mergeWithDefaults(read.data.value) ELSE getFileDefaults

\* the handler p starts a request in this step and calls getPricingConfig
Calls(p) == loc'[p].id # loc[p].id /\ (Got(p)' \/ pc'[p] = "get_await")

\* C2: getPricingConfig() returns the cached configuration, reading nothing and
\* leaving the cache alone, exactly when a cached value exists and now minus
\* cacheTimestamp is below CACHE_TTL; in every other case it loads (the store read,
\* or the defaults when no client is set), caches what it loaded with
\* cacheTimestamp = now, and returns it.
C2_CacheDecision ==
  [][\A p \in Procs :
       /\ Calls(p) =>
            IF cachedConfig # Null /\ now - cacheTimestamp < CACHE_TTL
            THEN /\ loc'[p].hit /\ loc'[p].config = cachedConfig
                 /\ loc'[p].read = NoResp /\ pc'[p] # "get_await"
                 /\ UNCHANGED <<cachedConfig, cacheTimestamp>>
            ELSE /\ ~loc'[p].hit
                 /\ IF supabase
                    THEN pc'[p] = "get_await" /\ UNCHANGED <<cachedConfig, cacheTimestamp>>
                    ELSE /\ loc'[p].config = getFileDefaults
                         /\ cachedConfig' = getFileDefaults /\ cacheTimestamp' = now
       /\ (pc[p] = "get_resp" /\ pc'[p] # "get_resp") =>
            /\ loc'[p].config = Loaded(loc[p].read)
            /\ cachedConfig' = loc'[p].config /\ cacheTimestamp' = now
    ]_vars

\* C2 witness: a call is reading the store although a value is cached, the
\* cached value being exactly CACHE_TTL old
C2_Witness ==
  \E p \in Procs :
    pc[p] = "get_await" /\ cachedConfig # Null /\ now - cacheTimestamp = CACHE_TTL

\* a configuration has every field of the defaults: every section, every key
\* of a section, every size entry of a default service
Complete(c) ==
  \A sec \in DOMAIN fileDefaults :
    /\ sec \in DOMAIN c
    /\ \A k \in DOMAIN fileDefaults[sec] :
         /\ k \in DOMAIN c[sec]
         /\ sec = "SERVICE_PRICING" =>
              \A size \in DOMAIN fileDefaults[sec][k] : size \in DOMAIN c[sec][k]

\* the store states in which the load has nothing to merge
FailureCauses == {"noclient", "throws", "error", "norecord", "nullvalue"}

\* C3: loading never fails: getPricingConfig() never raises, and when the client
\* is not set, the read throws or returns an error, there is no row, or the row's
\* value is null, it returns the compiled-in defaults, a complete configuration.
C3_LoadNeverFails ==
  \A p \in Procs :
    /\ ~loc[p].raised
    /\ (pc[p] \notin {"get_await", "get_resp"} /\ loc[p].read.cause \in FailureCauses)
         => loc[p].config = getFileDefaults /\ Complete(loc[p].config)

\* C3 witness: an estimate whose read threw went on with the defaults, the
\* store holding an override
C3_Witness ==
  \E p \in Procs :
    /\ pc[p] = "done" /\ op[p] = "estimate" /\ loc[p].read.cause = "throws"
    /\ loc[p].config = getFileDefaults
    /\ store # NoRecord /\ LoadResult # getFileDefaults

\* C4: whatever override is stored, the configuration getPricingConfig()
\* returns has every field of the compiled-in defaults.
C4_LoadComplete == \A p \in Procs : Got(p) => Complete(loc[p].config)

\* the field-by-field merge of an override over the defaults, pricing included:
\* every field of c with c's value, every other field with the default
DeepMerge(c) ==
  [ sec \in DOMAIN fileDefaults |->
      IF sec # "SERVICE_PRICING" THEN Spread(fileDefaults[sec], SectionOrEmpty(c, sec))
      ELSE LET d == fileDefaults[sec]
               o == SectionOrEmpty(c, sec)
           IN [ svc \in DOMAIN d \cup DOMAIN o |->
                  IF svc \notin DOMAIN o THEN d[svc]
                  ELSE IF svc \notin DOMAIN d THEN o[svc]
                  ELSE Spread(d[svc], o[svc]) ] ]

\* C5: round trip: when savePricingConfig(c) has returned successfully and c is
\* the row's value, a load returns c merged field by field with the defaults.
C5_RoundTrip ==
  \A p \in Procs :
    (pc[p] = "log" /\ op[p] = "update" /\ store = Row(loc[p].newConfig))
      => LoadResult = DeepMerge(loc[p].newConfig)

\* C6: when a reset has answered success (its history insert not failing), a
\* load returns exactly the defaults and the reset appended one ChangeRecord,
\* section full_reset, old value the configuration it read, new value null.
C6_ResetRestoresDefaults ==
  \A p \in Procs :
    (pc[p] = "done" /\ op[p] = "reset" /\ loc[p].status = 200 /\ ~loc[p].logFailed)
      => /\ LoadResult = getFileDefaults
         /\ loc[p].logged = 1
         /\ history # <<>>
         /\ history[Len(history)] =
              [ changed_section |-> "full_reset", old_value |-> loc[p].config,
                new_value |-> Null, description |-> FullReset.description ]

\* C7: savePricingConfig and resetPricingConfig report success (the handler goes
\* on to log the change) only when the store call did not fail.
C7_WriteFailureSurfaced ==
  \A p \in Procs : pc[p] = "log" => ~loc[p].resp.thrown /\ ~loc[p].resp.error

\* C8: whatever the history insert does, a handler that is logging its change
\* goes on logging or answers success, and the stored configuration and the
\* cache stay as the save or reset left them.
C8_LogFailureSwallowed ==
  [][\A p \in Procs :
       (pc[p] = "log" /\ (pc'[p] # pc[p] \/ loc'[p] # loc[p])) =>
         /\ pc'[p] = "log" \/ (pc'[p] = "done" /\ loc'[p].status = 200)
         /\ UNCHANGED <<store, cachedConfig, cacheTimestamp>>
    ]_vars

\* C8 witness: an update answered success with its configuration stored although
\* a history insert failed
C8_Witness ==
  \E p \in Procs :
    /\ pc[p] = "done" /\ op[p] = "update" /\ loc[p].status = 200
    /\ loc[p].logFailed /\ loc[p].wrote /\ store # NoRecord

\* C9: an update or reset that answered success, changed the stored row and met
\* no history failure appended at least one ChangeRecord.
C9_ChangeRecorded ==
  \A p \in Procs :
    (pc[p] = "done" /\ op[p] \in {"update", "reset"} /\ loc[p].status = 200
       /\ loc[p].wrote /\ ~loc[p].logFailed)
      => loc[p].logged >= 1

\* C10: every configuration getPricingConfig() returns has hot > warm > cold.
C10_ThresholdsOrdered ==
  \A p \in Procs :
    Got(p) =>
      LET qt == loc[p].config.QUALIFICATION_THRESHOLDS
      IN qt.hot > qt.warm /\ qt.warm > qt.cold

\* ---------------------------------------------- claims on the estimator

\* calculateEstimate has returned or raised for the submission
Estimated == step \in {"estimated", "scored"}

\* the submission names no service: the list is missing or empty
ServicesMissing == "services" \notin DOMAIN quote \/ quote.services = <<>>

\* C11: calculateEstimate never raises: for every submission and every
\* configuration a load can return it gives an estimate whose min and max are
\* both null or both numbers.
C11_EstimateNeverFails ==
  Estimated =>
    /\ ~estimate.raised
    /\ (estimate.min = Null) = (estimate.max = Null)

\* C12: for a submission whose services list is missing or empty,
\* calculateEstimate returns min null, max null and confidence 'none',
\* whatever the configuration.
C12_NoServicesNoEstimate ==
  (Estimated /\ ServicesMissing) =>
    /\ ~estimate.raised
    /\ estimate.min = Null /\ estimate.max = Null
    /\ estimate.confidence = "none"

\* C12 witness: an empty services list was estimated under a stored override
C12_Witness ==
  /\ Estimated
  /\ "services" \in DOMAIN quote /\ quote.services = <<>>
  /\ quote.answers = ExampleAnswers
  /\ rules # getFileDefaults
  /\ estimate.confidence = "none"

\* every pricing pair of a configuration has 0 <= min <= max, every modifier
\* is positive and the discount is in (0, 1]
ValidRules(cfg) ==
  /\ \A svc \in DOMAIN cfg.SERVICE_PRICING : \A size \in DOMAIN cfg.SERVICE_PRICING[svc] :
       LET pair == cfg.SERVICE_PRICING[svc][size]
       IN 0 <= pair[1] /\ pair[1] <= pair[2]
  /\ \A k \in DOMAIN cfg.MODIFIERS : cfg.MODIFIERS[k] > 0
  /\ cfg.MULTI_SERVICE_DISCOUNT.discount > 0 /\ cfg.MULTI_SERVICE_DISCOUNT.discount <= 100

\* C13: under a valid configuration, the estimate of a submission with at
\* least one service has min <= max after modifiers, discount and rounding.
C13_MinNotAboveMax ==
  (Estimated /\ ~ServicesMissing /\ ValidRules(rules) /\ ~estimate.raised) =>
    /\ estimate.min # Null /\ estimate.max # Null
    /\ estimate.min.n <= estimate.max.n

\* C13 witness: both totals were equal and met a half in the rounding (a
\* pricing pair with min = max, three modifiers), and min = max came out
C13_Witness ==
  /\ Estimated /\ ~estimate.raised
  /\ "services" \in DOMAIN quote /\ quote.services = <<"gutter">>
  /\ rules.SERVICE_PRICING # SERVICE_PRICING
  /\ "gutter" \in DOMAIN rules.SERVICE_PRICING
  /\ rules.SERVICE_PRICING.gutter = [default |-> <<100, 100>>]
  /\ calculateModifiers(quote, rules.MODIFIERS).multiplier = [num |-> 69, den |-> 40]
  /\ estimate.min = estimate.max

\* the ranges of one size of a list of services summed, 100-300 for a
\* service without a pricing entry
RECURSIVE SizeSum(_, _, _, _)
SizeSum(services, pricing, size, side) ==
  IF services = <<>> THEN 0
  ELSE (IF Head(services) \in DOMAIN pricing
        THEN pricing[Head(services)][size][side]
        ELSE GenericRange[side])
       + SizeSum(Tail(services), pricing, size, side)

\* the base totals of a submission without answers: every size is 'medium'
MediumSum(services, pricing, side) == SizeSum(services, pricing, "medium", side)

\* hundredths * total / 100 rounded to the nearest multiple of 5
Nearest5(total, hundredths) == ((2 * total * hundredths + 500) \div 1000) * 5

\* the submission has no answers and the pricing is the default one: the
\* totals before the discount are the sums of the medium ranges
PlainSubmission ==
  /\ Estimated /\ ~ServicesMissing /\ ~estimate.raised
  /\ quote.answers = Null
  /\ rules.SERVICE_PRICING = SERVICE_PRICING

\* C14: the discount multiplies both totals exactly when the number of
\* services is >= MULTI_SERVICE_DISCOUNT.threshold: with threshold - 1
\* services the totals are the undiscounted sums, with threshold services
\* they are the sums times the discount.
C14_DiscountFromThreshold ==
  PlainSubmission =>
    LET MSD == rules.MULTI_SERVICE_DISCOUNT
        factor == IF Len(quote.services) >= MSD.threshold THEN MSD.discount ELSE 100
    IN /\ estimate.min = Num(Nearest5(MediumSum(quote.services, SERVICE_PRICING, 1), factor))
       /\ estimate.max = Num(Nearest5(MediumSum(quote.services, SERVICE_PRICING, 2), factor))

\* C14 witness: exactly threshold services, and the discounted totals differ
\* from the sums
C14_Witness ==
  /\ PlainSubmission
  /\ Len(quote.services) = rules.MULTI_SERVICE_DISCOUNT.threshold
  /\ rules.MULTI_SERVICE_DISCOUNT.discount < 100
  /\ estimate.min.n < MediumSum(quote.services, SERVICE_PRICING, 1)
  /\ estimate.max.n < MediumSum(quote.services, SERVICE_PRICING, 2)

\* answers.<field> holds a non-empty text
Populated(answers, field) == field \in DOMAIN answers /\ answers[field] # <<>>

\* the number of populated fields of the answers
PopulatedFields(answers) == Cardinality({ f \in DOMAIN answers : Populated(answers, f) })

\* C15: for a submission with at least one service whose answers are absent
\* or have fewer than 5 populated fields, the confidence is 'low', also when
\* the service count reaches the multi-service threshold.
C15_SparseAnswersLow ==
  ( /\ Estimated /\ ~ServicesMissing /\ ~estimate.raised
    /\ (quote.answers = Null \/ PopulatedFields(quote.answers) < 5) )
  => estimate.confidence = "low"

\* a requested service has no pricing entry
UnknownRequested == \E i \in DOMAIN quote.services : quote.services[i] \notin DOMAIN rules.SERVICE_PRICING

\* the submission has at least one service and at least 5 answer fields
FullSubmission ==
  /\ Estimated /\ ~ServicesMissing /\ ~estimate.raised
  /\ quote.answers # Null /\ Cardinality(DOMAIN quote.answers) >= 5

\* C16: with at least one service and at least 5 answer fields the confidence
\* is the last of the ordered steps that fired: 'high' when the service count
\* is >= the threshold, else 'low' when a requested service has no pricing
\* entry, else 'medium'.
C16_ConfidenceSteps ==
  FullSubmission =>
    estimate.confidence =
      IF Len(quote.services) >= rules.MULTI_SERVICE_DISCOUNT.threshold THEN "high"
      ELSE IF UnknownRequested THEN "low"
      ELSE "medium"

\* C16 witness: a service without a pricing entry among threshold services,
\* and the upgrade came last
C16_Witness ==
  /\ FullSubmission
  /\ UnknownRequested
  /\ Len(quote.services) >= rules.MULTI_SERVICE_DISCOUNT.threshold
  /\ estimate.confidence = "high"

\* the texts of the full submissions, as typed
ThreeYearsAgo == <<"3", " ", "Y", "e", "a", "r", "s", " ", "a", "g", "o">>
MossOnTiles == <<"M", "o", "s", "s", " ", "o", "n", " ", "t", "i", "l", "e", "s">>
NeededASAP == <<"N", "e", "e", "d", "e", "d", " ", "A", "S", "A", "P">>
StainedUrgentJob == <<"S", "t", "a", "i", "n", "e", "d", ",", " ", "u", "r", "g", "e", "n", "t", " ", "j", "o", "b">>
NarrowSideGate == <<"N", "a", "r", "r", "o", "w", " ", "s", "i", "d", "e", " ", "g", "a", "t", "e">>
TallHedge == <<"T", "a", "l", "l", " ", "h", "e", "d", "g", "e">>
DifficultTwoStorey == <<"D", "i", "f", "f", "i", "c", "u", "l", "t", ",", " ", "t", "w", "o", " ", "s", "t", "o", "r", "e", "y">>

\* the submission is one of the full ones: last-cleaned, details and access
\* texts in every combination, size 'large'
TextSubmission ==
  /\ Estimated /\ ~ServicesMissing /\ ~estimate.raised
  /\ quote.answers # Null
  /\ Has(quote.answers, "lastCleaned") /\ quote.answers.lastCleaned \in LastCleanedTexts
  /\ Has(quote.answers, "specificDetails") /\ quote.answers.specificDetails \in DetailTexts
  /\ Has(quote.answers, "accessNotes") /\ quote.answers.accessNotes \in AccessTexts

\* the modifier conditions that hold for a full submission, read off its texts
ConditionsHeld(answers) ==
  (IF answers.lastCleaned = ThreeYearsAgo THEN {"firstTimeCleaning"} ELSE {})
  \cup (IF answers.specificDetails \in {MossOnTiles, StainedUrgentJob} THEN {"heavilySoiled"} ELSE {})
  \cup (IF answers.accessNotes \in {NarrowSideGate, DifficultTwoStorey} THEN {"difficultAccess"} ELSE {})
  \cup (IF answers.accessNotes \in {TallHedge, DifficultTwoStorey} THEN {"heightWork"} ELSE {})
  \cup (IF answers.specificDetails \in {NeededASAP, StainedUrgentJob} THEN {"urgent"} ELSE {})

\* the product of the modifiers of a set of conditions, 1.0 for the empty set
RECURSIVE ProductOf(_, _)
ProductOf(held, MODS) ==
  IF held = {} THEN One
  ELSE LET k == CHOOSE x \in held : TRUE
       IN Times(ProductOf(held \ {k}, MODS), MODS[k])

\* v is total * m rounded to a nearest multiple of 5
Near(v, total, m) ==
  LET diff == v * m.den - total * m.num
  IN /\ v % 5 = 0
     /\ 2 * diff <= 5 * m.den /\ -2 * diff <= 5 * m.den

\* C17: the five modifier conditions are independent: for every subset of
\* conditions that hold, the multiplier of calculateModifiers is the product
\* of exactly the modifiers of the subset (1.0 for none), and both totals are
\* multiplied by it.
C17_ModifiersCompose ==
  TextSubmission =>
    LET expected == ProductOf(ConditionsHeld(quote.answers), rules.MODIFIERS)
        MSD == rules.MULTI_SERVICE_DISCOUNT
        m == IF Len(quote.services) >= MSD.threshold THEN Times(expected, MSD.discount)
             ELSE expected
    IN /\ calculateModifiers(quote, rules.MODIFIERS).multiplier = expected
       /\ rules.SERVICE_PRICING = SERVICE_PRICING =>
            /\ Near(estimate.min.n, SizeSum(quote.services, SERVICE_PRICING, "large", 1), m)
            /\ Near(estimate.max.n, SizeSum(quote.services, SERVICE_PRICING, "large", 2), m)

\* C17 witness: all five conditions hold and the totals were multiplied by
\* the product of the five modifiers
C17_Witness ==
  /\ TextSubmission
  /\ Cardinality(ConditionsHeld(quote.answers)) = 5
  /\ rules = getFileDefaults
  /\ quote.services = <<"roof">>
  /\ estimate.min = Num(1160) /\ estimate.max = Num(1935)

\* the example submission was estimated against the default configuration
ExampleEstimated ==
  /\ Estimated /\ ~estimate.raised
  /\ Has(quote, "services") /\ quote.services = <<"roof", "gutter">>
  /\ quote.answers = ExampleAnswers
  /\ rules = getFileDefaults

\* the estimate is the roof-large and gutter-large ranges summed and
\* multiplied by the modifiers of a set of conditions
ExampleTimes(held) ==
  LET m == ProductOf(held, MODIFIERS)
  IN /\ Near(estimate.min.n, SERVICE_PRICING.roof.large[1] + SERVICE_PRICING.gutter.large[1], m)
     /\ Near(estimate.max.n, SERVICE_PRICING.roof.large[2] + SERVICE_PRICING.gutter.large[2], m)

\* C18 as stated: the example estimate is the roof-large and gutter-large
\* ranges times both the first-time-cleaning and the heavily-soiled
\* modifiers, with confidence 'medium' or better.
C18_ExampleBothModifiers ==
  ExampleEstimated =>
    /\ ExampleTimes({"firstTimeCleaning", "heavilySoiled"})
    /\ estimate.confidence \in {"medium", "high"}

\* C18: for the example submission against the default configuration only
\* the heavily-soiled modifier fires ('over a year ago' holds neither 'never'
\* nor 'years'): the estimate is the roof-large and gutter-large ranges times
\* the heavily-soiled modifier, 725 to 1185, with confidence 'medium'.
C18_ExampleSoiledOnly ==
  ExampleEstimated =>
    /\ calculateModifiers(quote, rules.MODIFIERS).reasons = <<"Heavily soiled">>
    /\ ExampleTimes({"heavilySoiled"})
    /\ estimate.min = Num(725) /\ estimate.max = Num(1185)
    /\ estimate.confidence = "medium"

\* C18 witness: the example submission estimated, and the second step taken
C18_Witness ==
  /\ ExampleEstimated
  /\ step = "scored"
  /\ estimate.version = ESTIMATION_VERSION

\* ------------------------------------------------- claims on the scorer

\* calculateLeadScore has returned
Scored == step = "scored"

\* the bonuses of the submission summed
BonusSum ==
  LET LS == rules.LEAD_SCORING
  IN ValueBonus(estimate, LS) + ServicesBonus(quote, LS) + RemindersBonus(quote, LS)
     + ContactBonus(quote, LS) + CommercialBonus(quote, LS) + UrgencyBonus(quote, LS)

\* C19: under every configuration the admin update accepts, the score lies
\* in [LEAD_SCORING.baseScore, 100]: it is baseScore when no bonus fires and
\* 100 when base and bonuses sum past 100.
C19_ScoreWithinBaseAnd100 ==
  Scored =>
    LET base == rules.LEAD_SCORING.baseScore
    IN /\ base <= 10 * scoring.score /\ scoring.score <= 100
       /\ BonusSum = 0 => 10 * scoring.score = base
       /\ base + BonusSum > 1000 => scoring.score = 100

\* the CONVERSION_FACTORS entry of a tier
FactorOf(tier) ==
  CASE tier = "hot" -> rules.CONVERSION_FACTORS.hotLead
    [] tier = "warm" -> rules.CONVERSION_FACTORS.warmLead
    [] tier = "cold" -> rules.CONVERSION_FACTORS.coldLead
    [] tier = "unqualified" -> rules.CONVERSION_FACTORS.unqualified

\* the score line 124 compares, in tenths: the capped sum before Math.round
RawScore == Cap(rules.LEAD_SCORING.baseScore + BonusSum)

\* C20: the tier boundaries use >= in descending order: a score equal to a
\* threshold has the tier of that threshold and a score one less the tier
\* below, 'unqualified' below cold; conversionLikelihood is the
\* CONVERSION_FACTORS entry of the tier. (Scores that are whole numbers: the
\* score compared is the score returned.)
C20_TierBoundaries ==
  (Scored /\ RawScore = 10 * scoring.score) =>
    LET QT == rules.QUALIFICATION_THRESHOLDS
        s == 10 * scoring.score
    IN /\ s >= QT.hot => scoring.qualification = "hot"
       /\ (QT.warm <= s /\ s < QT.hot) => scoring.qualification = "warm"
       /\ (QT.cold <= s /\ s < QT.warm) => scoring.qualification = "cold"
       /\ s < QT.cold => scoring.qualification = "unqualified"
       /\ scoring.qualification \in {"hot", "warm", "cold", "unqualified"}
       /\ scoring.conversionLikelihood = FactorOf(scoring.qualification)

\* C20 witness: a score exactly on the hot threshold, scored 'hot'
C20_Witness ==
  /\ Scored
  /\ 10 * scoring.score = rules.QUALIFICATION_THRESHOLDS.hot
  /\ RawScore = rules.QUALIFICATION_THRESHOLDS.hot
  /\ scoring.qualification = "hot"
  /\ scoring.conversionLikelihood = CONVERSION_FACTORS.hotLead

\* C21: the returned integer score and the returned qualification agree,
\* also with non-integer bonuses: 'hot' iff score >= hot, 'warm' iff
\* warm <= score < hot, 'cold' iff cold <= score < warm, 'unqualified'
\* otherwise.
C21_TierOnRoundedScore ==
  Scored =>
    LET QT == rules.QUALIFICATION_THRESHOLDS
        s == 10 * scoring.score
    IN /\ (scoring.qualification = "hot") = (s >= QT.hot)
       /\ (scoring.qualification = "warm") = (QT.warm <= s /\ s < QT.hot)
       /\ (scoring.qualification = "cold") = (QT.cold <= s /\ s < QT.warm)
       /\ (scoring.qualification = "unqualified") = (s < QT.cold)

\* shouldAlertAdmin has returned
Alerted == step = "alerted"

\* C22: shouldAlertAdmin is true exactly when the qualification is 'hot' and
\* the score is >= 85: false for ('hot', 84), true for ('hot', 85), false for
\* every other qualification at any score.
C22_AlertHotFrom85 ==
  Alerted =>
    /\ (scoring.qualification = "hot" /\ scoring.score = 84) => alert = Flag(FALSE)
    /\ (scoring.qualification = "hot" /\ scoring.score = 85) => alert = Flag(TRUE)
    /\ scoring.qualification # "hot" => alert = Flag(FALSE)
    /\ alert = Flag(TRUE) <=> (scoring.qualification = "hot" /\ scoring.score > 84)

\* C22 witness: ('hot', 85) alerts
C22_Witness ==
  /\ Alerted
  /\ scoring.qualification = "hot" /\ scoring.score = 85
  /\ alert = Flag(TRUE)

\* C23: the value bonus is tiered and exclusive: the very-high-value bonus
\* when estimate.max exceeds veryHighValueThreshold, otherwise the high-value
\* bonus when it exceeds highValueThreshold, otherwise none (none for a null
\* estimate.max or one that does not exceed the lower threshold).
C23_ValueBonusWhenExceeds ==
  Scored =>
    LET LS == rules.LEAD_SCORING
        max == estimate.max
        expected == IF max = Null THEN 0
                    ELSE IF max.n > LS.veryHighValueThreshold THEN LS.veryHighValueBonus
                    ELSE IF max.n > LS.highValueThreshold THEN LS.highValueBonus
                    ELSE 0
    IN /\ ValueBonus(estimate, LS) = expected
       /\ Len(SelectSeq(scoring.reasons,
                        LAMBDA r : r.text \in {"High-value job", "Good-value job"}))
            = IF expected = 0 THEN 0 ELSE 1

\* the texts of a reasons list
Texts(reasons) == [i \in DOMAIN reasons |-> reasons[i].text]

\* one reason text if the condition holds
OneIf(cond, text) == IF cond THEN <<text>> ELSE <<>>

\* answers.<field> as typed, empty if there is none
Typed(field) ==
  IF quote.answers # Null /\ Has(quote.answers, field) THEN quote.answers[field] ELSE <<>>

\* the reasons the submission earns, read off its fields in the order value,
\* service count, reminders, contact, commercial property, urgency
ExpectedReasons ==
  LET LS == rules.LEAD_SCORING
      max == IF estimate.max = Null THEN 0 ELSE estimate.max.n
      count == IF ServicesMissing THEN 0 ELSE Len(quote.services)
      contact == IF Has(quote, "preferredContact") THEN quote.preferredContact ELSE <<>>
  IN OneIf(max # 0 /\ max >= LS.veryHighValueThreshold, "High-value job")
     \o OneIf(max # 0 /\ max >= LS.highValueThreshold /\ max < LS.veryHighValueThreshold, "Good-value job")
     \o OneIf(count >= 3, "Multiple services")
     \o OneIf(count = 2, "Two services selected")
     \o OneIf(Has(quote, "remindersOk") /\ quote.remindersOk, "Opted in to reminders")
     \o OneIf(contact = <<"P", "h", "o", "n", "e", " ", "c", "a", "l", "l">>, "Prefers phone contact")
     \o OneIf(contact = <<"E", "m", "a", "i", "l">>, "Prefers email contact")
     \o OneIf(Typed("propertyType") \in {<<"C", "o", "m", "m", "e", "r", "c", "i", "a", "l", " ", "u", "n", "i", "t">>, <<"B", "u", "s", "i", "n", "e", "s", "s", " ", "p", "a", "r", "k">>},
              "Commercial property")
     \o OneIf(\/ Typed("specificDetails") \in {NeededASAP, StainedUrgentJob}
              \/ Typed("specificDetails") = <<"I", "m", "m", "e", "d", "i", "a", "t", "e", " ", "s", "t", "a", "r", "t">>,
              "Urgent request")

\* C24: reasons holds exactly one entry per bonus that was added, in the
\* order value, service count, reminders opt-in, contact preference,
\* commercial property, urgency, and none for a bonus that did not fire.
C24_ReasonsInOrder ==
  Scored => Texts(scoring.reasons) = ExpectedReasons

\* C24 witness: all six blocks added a bonus, six reasons in order
C24_Witness ==
  /\ Scored
  /\ Texts(scoring.reasons) =
       << "High-value job", "Multiple services", "Opted in to reminders",
          "Prefers phone contact", "Commercial property", "Urgent request" >>
  /\ scoring.reasons[1].n = estimate.max.n
  /\ scoring.reasons[2].n = Len(quote.services)

\* ---------------------------------------------- claims on the estimation job

\* processEstimation has returned
JobReturned == step = "returned" /\ job # Null /\ job.result # Null

\* C25: for a quote with at least one service, when the update of the quotes
\* row succeeds, processEstimation returns success: true and the row carries
\* min, max and version of calculateEstimate for the quote, and score,
\* qualification and conversion likelihood of calculateLeadScore for the
\* quote and that estimate.
C25_RowCarriesResults ==
  (JobReturned /\ quote.services # <<>> /\ job.env.update = "ok") =>
    /\ job.result.success
    /\ job.result.row # Null
    /\ \E ties \in TieChoices :
         LET e == calculateEstimate(quote, rules, ties)
             sc == calculateLeadScore(quote, e, rules)
         IN job.result.row =
              [ estimated_value_min |-> e.min,
                estimated_value_max |-> e.max,
                estimation_engine_version |-> e.version,
                lead_score |-> sc.score,
                qualification_status |-> sc.qualification,
                conversion_likelihood |-> sc.conversionLikelihood ]

\* estimation, scoring or the update has failed
JobFailed ==
  \/ Has(estimate, "raised") /\ estimate.raised
  \/ ~job.result.success

\* C26: nothing is sent for a quote unless the update of its row succeeded
\* first; if estimation, scoring or the update fails, processEstimation
\* sends nothing, raises nothing and returns success: false.
C26_PersistBeforeNotify ==
  JobReturned =>
    /\ job.result.sent # {} => (job.result.row # Null /\ job.env.update = "ok")
    /\ JobFailed =>
         /\ job.result.sent = {}
         /\ ~job.result.success
         /\ ~job.result.raised
         /\ job.escaped # "uncaught exception"

\* ------------------------------------------------ claims on the preview

\* C27: for the same configuration, the same services, the size
\* determineSize infers and the modifiers calculateModifiers detects,
\* calculateTestEstimate returns the min and max of calculateEstimate, for
\* every services list, unrecognized service ids included.
C27_PreviewAgrees ==
  step = "previewed" =>
    /\ preview.raised = estimate.raised
    /\ preview.min = estimate.min
    /\ preview.max = estimate.max

\* ------------------------------------------ claims on concurrent updates

\* the section record of a history row
SectionOf(rec) == CHOOSE i \in DOMAIN Sections : Sections[i].section = rec.changed_section

\* what a load gives for a section whose stored value is v
LoadedSection(s, v) ==
  mergeWithDefaults([k \in {s.configKey} |-> v])[s.configKey]

\* two updates have both answered success, each has changed a section, and
\* no section was changed by both
TwoDisjointUpdates ==
  /\ \A p \in Procs : pc[p] = "done" /\ op[p] = "update" /\ loc[p].status = 200
                      /\ loc[p].logged >= 1
  /\ \A i, j \in DOMAIN history :
       i # j => history[i].changed_section # history[j].changed_section

\* C28: when two admin updates that change disjoint sections have both
\* reported success, the configuration loaded afterwards contains both
\* changes, also when the two ran concurrently.
C28_NoLostUpdate ==
  TwoDisjointUpdates =>
    \A i \in DOMAIN history :
      LET s == Sections[SectionOf(history[i])]
      IN LoadResult[s.configKey] = LoadedSection(s, history[i].new_value)

\* the awaited upsert of handler p has failed
SaveFailed(p) ==
  /\ op[p] = "update"
  /\ pc[p] = "save_resp"
  /\ loc[p].resp.thrown \/ loc[p].resp.error

\* C29: a failed save changes nothing: when the upsert reports an error the
\* stored override, the cached configuration and its timestamp stay as they
\* were, no ChangeRecord is appended and the handler answers with a failure.
C29_FailedSaveChangesNothing ==
  [][\A p \in Procs :
       /\ (pc[p] = "save_await" /\ SaveFailed(p)') =>
            UNCHANGED <<store, cachedConfig, cacheTimestamp, history>>
       /\ (SaveFailed(p) /\ pc'[p] # pc[p]) =>
            /\ UNCHANGED <<store, cachedConfig, cacheTimestamp, history>>
            /\ pc'[p] = "done"
            /\ loc'[p].status = 500
            /\ loc'[p].logged = 0 /\ ~loc'[p].wrote
    ]_vars

\* C29 witness: an update whose upsert returned an error was answered 500,
\* with the configuration its read had cached still in the cache
C29_Witness ==
  \E p \in Procs :
    /\ pc[p] = "done" /\ op[p] = "update"
    /\ loc[p].resp.error /\ loc[p].status = 500
    /\ cachedConfig # Null /\ cacheTimestamp # 0
    /\ history = <<>>

\* ------------------------------------ claims on the estimate's confidence

\* C30: an estimate for a submission that names at least one service without
\* a pricing entry never has confidence 'high'.
C30_UnknownNeverHigh ==
  ( /\ Estimated /\ ~ServicesMissing /\ ~estimate.raised
    /\ UnknownRequested )
  => estimate.confidence # "high"

====
